---- MODULE Spec2Model ----
(***************************************************************************)
(* Model of the SlashVibeRepo service (src/main.go, lines 1-530): the      *)
(* dual-channel dispatch loop of main, the command handler, the            *)
(* view-submission handler with its validator, escaper, task builder and   *)
(* confirmation builder.                                                   *)
(*                                                                         *)
(* Strings that the program inspects or concatenates are sequences of      *)
(* characters; a character is a one-character TLA+ string (or a token such *)
(* as "U+00E9" for a character outside ASCII) and Ord gives its code       *)
(* point.  Strings the program only compares for equality or passes        *)
(* through (callback ids, command names, trigger ids) are TLA+ strings.    *)
(***************************************************************************)
EXTENDS Integers, Sequences, FiniteSets, TLC

\* ------------------------------------------------------------------------
\* Bounds of the model
\* ------------------------------------------------------------------------

\* Messages published on both streams together in one behaviour.
MaxMsgs == 2

\* Longest string of the exhaustive part of the pure-function inputs.
MaxStrLen == 2

\* ------------------------------------------------------------------------
\* Program constants
\* ------------------------------------------------------------------------

SevenDaysTTL == 7 * 24 * 60 * 60

\* Variant of NewRepoModalCallbackID: the id of another modal.
OtherModalCallbackID == "other_modal"

NewRepoModalCallbackID == "create_github_repo_modal"

LogLevelDebug == 0
LogLevelInfo == 1
LogLevelWarn == 2
LogLevelError == 3

\* The length limit of isValidRepoName.
MaxRepoNameLen == 100

\* ------------------------------------------------------------------------
\* Characters and strings
\* ------------------------------------------------------------------------

LowerSeq == <<"a","b","c","d","e","f","g","h","i","j","k","l","m",
              "n","o","p","q","r","s","t","u","v","w","x","y","z">>

UpperSeq == <<"A","B","C","D","E","F","G","H","I","J","K","L","M",
              "N","O","P","Q","R","S","T","U","V","W","X","Y","Z">>

DigitSeq == <<"0","1","2","3","4","5","6","7","8","9">>

IndexIn(seq, c) == CHOOSE i \in 1..Len(seq) : seq[i] = c

InSeq(seq, c) == \E i \in 1..Len(seq) : seq[i] = c

\* The code point of a character (the rune value Go's range yields).
Ord(c) ==
    IF InSeq(LowerSeq, c) THEN 96 + IndexIn(LowerSeq, c)
    ELSE IF InSeq(UpperSeq, c) THEN 64 + IndexIn(UpperSeq, c)
    ELSE IF InSeq(DigitSeq, c) THEN 47 + IndexIn(DigitSeq, c)
    ELSE CASE c = "\n" -> 10
           [] c = " " -> 32
           [] c = "#" -> 35
           [] c = "'" -> 39
           [] c = "*" -> 42
           [] c = "-" -> 45
           [] c = "." -> 46
           [] c = "/" -> 47
           [] c = ":" -> 58
           [] c = "<" -> 60
           [] c = ">" -> 62
           [] c = "@" -> 64
           [] c = "[" -> 91
           [] c = "\\" -> 92
           [] c = "_" -> 95
           [] c = "U+0060" -> 96
           [] c = "{" -> 123
           [] c = "|" -> 124
           [] c = "!" -> 33
           [] c = "U+00E9" -> 233
           [] c = "U+0130" -> 304
           [] c = "U+2705" -> 9989

\* Bytes of the UTF-8 encoding of a code point.
Utf8Len(cp) ==
    IF cp < 128 THEN 1
    ELSE IF cp < 2048 THEN 2
    ELSE IF cp < 65536 THEN 3
    ELSE 4

\* Bytes of the characters lo..hi of s.
RECURSIVE BytesOf(_, _, _)
BytesOf(s, lo, hi) ==
    IF lo > hi THEN 0
    ELSE IF lo = hi THEN Utf8Len(Ord(s[lo]))
    ELSE LET mid == (lo + hi) \div 2
         IN BytesOf(s, lo, mid) + BytesOf(s, mid + 1, hi)

\* len(s) of a Go string: its length in bytes.
ByteLen(s) == BytesOf(s, 1, Len(s))

\* strings.Repeat(c, n) for a one-character string.
Repeat(c, n) == [i \in 1..n |-> c]

\* ------------------------------------------------------------------------
\* String literals of the program text
\* ------------------------------------------------------------------------

StrGhRepoCreate ==
    <<"g","h"," ","r","e","p","o"," ","c","r","e","a","t","e"," ">>

StrCreateFlags ==
    <<" ","-","-","p","u","b","l","i","c"," ","-","-","a","d","d","-","r",
      "e","a","d","m","e"," ","-","-","g","i","t","i","g","n","o","r","e",
      " ","G","o">>

StrDescriptionFlag ==
    <<" ","-","-","d","e","s","c","r","i","p","t","i","o","n"," ","'">>

StrQuote == <<"'">>

StrEscapedQuote == <<"'","\\","'","'">>

StrGhRepoClone ==
    <<"g","h"," ","r","e","p","o"," ","c","l","o","n","e"," ">>

StrGhVibeInit ==
    <<"g","h"," ","v","i","b","e"," ","i","n","i","t"," ">>

StrSlash == <<"/">>

StrGithubURL ==
    <<"h","t","t","p","s",":","/","/","g","i","t","h","u","b",".","c","o",
      "m","/">>

StrConfirmHead ==
    <<"U+2705"," ","N","e","w"," ","r","e","p","o","s","i","t","o","r","y",
      " ","c","r","e","a","t","i","o","n"," ","i","n","i","t","i","a","t",
      "e","d","!","\n","\n","*","R","e","p","o","s","i","t","o","r","y",":",
      "*"," ","<">>

StrBar == <<"|">>

StrGt == <<">">>

StrDescriptionLine ==
    <<"\n","*","D","e","s","c","r","i","p","t","i","o","n",":","*"," ">>

StrTmp == <<"/","t","m","p">>

StrNewRepoChannel == <<"#","n","e","w","-","r","e","p","o">>

StrDebug == <<"d","e","b","u","g">>

StrInfo == <<"i","n","f","o">>

StrWarn == <<"w","a","r","n">>

StrWarning == <<"w","a","r","n","i","n","g">>

StrError == <<"e","r","r","o","r">>

StrRefsHeadsMain == "refs/heads/main"

StrWorkflowType == "slash-vibe-new-repo"

\* ------------------------------------------------------------------------
\* Logger
\* ------------------------------------------------------------------------

\* strings.ToLower on the characters of the model: ASCII upper case letters
\* map to lower case, the capital I with a dot above (U+0130) maps to i as
\* unicode.ToLower has it, every other character is unchanged.
ToLower(s) ==
    [i \in 1..Len(s) |->
        IF InSeq(UpperSeq, s[i]) THEN LowerSeq[IndexIn(UpperSeq, s[i])]
        ELSE IF s[i] = "U+0130" THEN "i"
        ELSE s[i]]

\* A NewLogger that compares the level string as it is.
NewLoggerCaseSensitive(levelStr) ==
    LET l == levelStr IN
    [level |->
        IF l = StrDebug THEN LogLevelDebug
        ELSE IF l = StrInfo THEN LogLevelInfo
        ELSE IF l = StrWarn \/ l = StrWarning THEN LogLevelWarn
        ELSE IF l = StrError THEN LogLevelError
        ELSE LogLevelInfo]

\* NewLogger: the level of the Logger created for a level string.
NewLogger(levelStr) ==
    LET l == ToLower(levelStr) IN
    [level |->
        IF l = StrDebug THEN LogLevelDebug
        ELSE IF l = StrInfo THEN LogLevelInfo
        ELSE IF l = StrWarn \/ l = StrWarning THEN LogLevelWarn
        ELSE IF l = StrError THEN LogLevelError
        ELSE LogLevelInfo]

\* A log line as an event of a handler's trace.
LogEntry(level, msg) == [ev |-> "log", level |-> level, msg |-> msg]

\* Logger.Debug, Info, Warn, Error: the entries the call emits.
Debug(l, msg) ==
    IF l.level <= LogLevelDebug THEN <<LogEntry(LogLevelDebug, msg)>> ELSE <<>>

Info(l, msg) ==
    IF l.level <= LogLevelInfo THEN <<LogEntry(LogLevelInfo, msg)>> ELSE <<>>

\* Variant of Warn with a strict comparison of the levels.
WarnStrict(l, msg) ==
    IF l.level < LogLevelWarn THEN <<LogEntry(LogLevelWarn, msg)>> ELSE <<>>

Warn(l, msg) ==
    IF l.level <= LogLevelWarn THEN <<LogEntry(LogLevelWarn, msg)>> ELSE <<>>

\* Variant of Error with a strict comparison of the levels.
ErrorStrict(l, msg) ==
    IF l.level < LogLevelError THEN <<LogEntry(LogLevelError, msg)>> ELSE <<>>

Error(l, msg) ==
    IF l.level <= LogLevelError THEN <<LogEntry(LogLevelError, msg)>> ELSE <<>>

\* ------------------------------------------------------------------------
\* Repository Name Validator
\* ------------------------------------------------------------------------

\* Variant of ValidRepoRune that also lets the space through.
ValidRepoRuneWithSpace(c) ==
    \/ (c >= Ord("a") /\ c <= Ord("z"))
    \/ (c >= Ord("A") /\ c <= Ord("Z"))
    \/ (c >= Ord("0") /\ c <= Ord("9"))
    \/ c = Ord("-")
    \/ c = Ord("_")
    \/ c = Ord(".")
    \/ c = Ord(" ")

\* Variant of ValidRepoRune that also lets the letter e with an acute accent
\* pass.
ValidRepoRuneAccented(c) ==
    \/ (c >= Ord("a") /\ c <= Ord("z"))
    \/ (c >= Ord("A") /\ c <= Ord("Z"))
    \/ (c >= Ord("0") /\ c <= Ord("9"))
    \/ c = Ord("-")
    \/ c = Ord("_")
    \/ c = Ord(".")
    \/ c = Ord("U+00E9")

\* The character test of isValidRepoName's loop on a rune c.
ValidRepoRune(c) ==
    \/ (c >= Ord("a") /\ c <= Ord("z"))
    \/ (c >= Ord("A") /\ c <= Ord("Z"))
    \/ (c >= Ord("0") /\ c <= Ord("9"))
    \/ c = Ord("-")
    \/ c = Ord("_")
    \/ c = Ord(".")

\* The loop of isValidRepoName: false as soon as a rune fails the test,
\* true when none does.
AllRunesValid(name) ==
    \A i \in 1..Len(name) : ValidRepoRune(Ord(name[i]))

\* Variant of RepoNameLenOK that already refuses a name at the limit.
RepoNameLenOKOffByOne(name) ==
    ~(name = <<>> \/ ByteLen(name) >= MaxRepoNameLen)

\* The guard on the length: len(name) counts bytes.
RepoNameLenOK(name) == ~(name = <<>> \/ ByteLen(name) > MaxRepoNameLen)

\* A validator that checks the length alone.
isValidRepoNameLengthOnly(name) == RepoNameLenOK(name)

isValidRepoName(name) ==
    IF ~RepoNameLenOK(name) THEN FALSE ELSE AllRunesValid(name)

\* ------------------------------------------------------------------------
\* Shell-Argument Escaper
\* ------------------------------------------------------------------------

\* strings.ReplaceAll(s, old, new) for a non-empty old: the non-overlapping
\* occurrences of old, left to right, are replaced by new.
RECURSIVE ReplaceAll(_, _, _)
ReplaceAll(s, old, new) ==
    IF Len(s) < Len(old) THEN s
    ELSE IF SubSeq(s, 1, Len(old)) = old
         THEN new \o ReplaceAll(SubSeq(s, Len(old) + 1, Len(s)), old, new)
         ELSE <<Head(s)>> \o ReplaceAll(Tail(s), old, new)

\* Variant of EscapeDesc that closes the quoted part and adds an escaped
\* quote, but does not open a quoted part again.
EscapeDescNoReopen(repoDesc) ==
    ReplaceAll(repoDesc, StrQuote, <<"'", "\\", "'">>)

\* Variant of EscapeDesc that puts a backslash before each quote.
EscapeDescBackslash(repoDesc) == ReplaceAll(repoDesc, StrQuote, <<"\\", "'">>)

\* escapedDesc of handleViewSubmission.
EscapeDesc(repoDesc) == ReplaceAll(repoDesc, StrQuote, StrEscapedQuote)

\* ------------------------------------------------------------------------
\* Form-Value Flattener
\* ------------------------------------------------------------------------

\* A flattener that gives a block without action ids the empty value.
extractViewValuesZeroForEmpty(values) ==
    LET blocks == {b \in DOMAIN values : DOMAIN values[b] # {}}
        actions == UNION {DOMAIN values[b] : b \in blocks}
        picks == {p \in [blocks -> actions] :
                     \A b \in blocks : p[b] \in DOMAIN values[b]}
    IN {[b \in DOMAIN values |->
            IF b \in blocks THEN values[b][p[b]].value ELSE <<>>] : p \in picks}

\* The flattened maps extractViewValues can return for the values of a
\* submission.  Go's range over a map starts at an unspecified entry, so a
\* block with several action ids contributes any one of their values; a
\* block with none contributes nothing.
extractViewValues(values) ==
    LET blocks == {b \in DOMAIN values : DOMAIN values[b] # {}}
        actions == UNION {DOMAIN values[b] : b \in blocks}
        picks == {p \in [blocks -> actions] :
                     \A b \in blocks : p[b] \in DOMAIN values[b]}
    IN {[b \in blocks |-> values[b][p[b]].value] : p \in picks}

\* values[key] of a Go map[string]string: the zero value when absent.
MapGet(m, key) == IF key \in DOMAIN m THEN m[key] ELSE <<>>

\* ------------------------------------------------------------------------
\* Configuration
\* ------------------------------------------------------------------------

\* getEnv: the value of an environment variable, or the default when it is
\* unset or empty.
getEnv(value, defaultValue) == IF value # <<>> THEN value ELSE defaultValue

\* loadConfig on an environment e (a record of the variables' values, <<>>
\* when unset).  The Redis address and the stream and list names are
\* not part of the model: the two streams and the two lists are distinct
\* state variables.
loadConfig(e) ==
    LET c == [SlackToken          |-> getEnv(e.SLACK_BOT_TOKEN, <<>>),
              SlackChannelNewRepo |-> getEnv(e.SLACK_CHANNEL_NEW_REPO, StrNewRepoChannel),
              GithubOrg           |-> getEnv(e.GITHUB_ORG, <<>>),
              WorkingDir          |-> getEnv(e.WORKING_DIR, StrTmp),
              LogLevel            |-> getEnv(e.LOG_LEVEL, StrInfo)]
    IN IF c.SlackToken = <<>> THEN [ok |-> FALSE, config |-> c]
       ELSE IF c.GithubOrg = <<>> THEN [ok |-> FALSE, config |-> c]
       ELSE [ok |-> TRUE, config |-> c]

\* ------------------------------------------------------------------------
\* Task-Command Builder and Confirmation-Message Builder
\* ------------------------------------------------------------------------

\* repoFullName of handleViewSubmission.
RepoFullName(cfg, repoName) == cfg.GithubOrg \o StrSlash \o repoName

\* Variant of GhRepoCreateCmd that appends the description flag whether or
\* not there is a description.
GhRepoCreateCmdAlwaysFlag(repoFullName, repoDesc) ==
    StrGhRepoCreate \o repoFullName \o StrCreateFlags
        \o StrDescriptionFlag \o EscapeDesc(repoDesc) \o StrQuote

\* ghRepoCreateCmd of handleViewSubmission.
GhRepoCreateCmd(repoFullName, repoDesc) ==
    LET base == StrGhRepoCreate \o repoFullName \o StrCreateFlags
    IN IF repoDesc # <<>>
       THEN base \o StrDescriptionFlag \o EscapeDesc(repoDesc) \o StrQuote
       ELSE base

GhRepoCloneCmd(repoFullName) == StrGhRepoClone \o repoFullName

GhVibeInitCmd(repoFullName) == StrGhVibeInit \o repoFullName

\* Variant of PoppitCommand that runs in the default directory whatever the
\* configuration says.
PoppitCommandFixedDir(cfg, repoName, repoDesc) ==
    LET repoFullName == RepoFullName(cfg, repoName) IN
    [repo     |-> repoFullName,
     branch   |-> StrRefsHeadsMain,
     type     |-> StrWorkflowType,
     dir      |-> StrTmp,
     commands |-> <<GhRepoCreateCmd(repoFullName, repoDesc),
                    GhRepoCloneCmd(repoFullName),
                    GhVibeInitCmd(repoFullName)>>]

\* poppitCmd of handleViewSubmission.  The list holds its JSON encoding;
\* every string of the record comes from json.Unmarshal or the environment
\* and the encoding of such a record decodes to the same record, so
\* the list element is the record.
PoppitCommand(cfg, repoName, repoDesc) ==
    LET repoFullName == RepoFullName(cfg, repoName) IN
    [repo     |-> repoFullName,
     branch   |-> StrRefsHeadsMain,
     type     |-> StrWorkflowType,
     dir      |-> cfg.WorkingDir,
     commands |-> <<GhRepoCreateCmd(repoFullName, repoDesc),
                    GhRepoCloneCmd(repoFullName),
                    GhVibeInitCmd(repoFullName)>>]

\* confirmationText of sendNewRepoConfirmation.
ConfirmationText(repoFullName, repoDesc) ==
    LET repoURL == StrGithubURL \o repoFullName
        head == StrConfirmHead \o repoURL \o StrBar \o repoFullName \o StrGt
    IN IF repoDesc # <<>>
       THEN head \o StrDescriptionLine \o repoDesc
       ELSE head

\* A slackMessage that leaves TTL at its zero value.
SlackLinerMessageNoTTL(cfg, repoFullName, repoDesc) ==
    [channel |-> cfg.SlackChannelNewRepo,
     text    |-> ConfirmationText(repoFullName, repoDesc),
     ttl     |-> 0]

\* slackMessage of sendNewRepoConfirmation.
SlackLinerMessage(cfg, repoFullName, repoDesc) ==
    [channel |-> cfg.SlackChannelNewRepo,
     text    |-> ConfirmationText(repoFullName, repoDesc),
     ttl     |-> SevenDaysTTL]

\* json.Marshal of a SlackLinerMessage: the ttl field carries omitempty, so
\* a zero TTL is left out of the encoded record.
MarshalSlackLinerMessage(m) ==
    IF m.ttl = 0
    THEN [channel |-> m.channel, text |-> m.text]
    ELSE [channel |-> m.channel, text |-> m.text, ttl |-> m.ttl]

\* ------------------------------------------------------------------------
\* Handlers.  A handler is the function from its inputs and the outcomes
\* of its external calls to its effects: the trace of log entries and
\* external calls in program order, and the elements pushed to each list.
\* ------------------------------------------------------------------------

\* An RPush to a list and its outcome.
RPushEvent(list, payload, ok) ==
    [ev |-> "rpush", list |-> list, payload |-> payload, ok |-> ok]

\* The call of extractViewValues and the map it returned.
ExtractEvent(values) == [ev |-> "extract", values |-> values]

\* The call of OpenViewContext and its outcome.
OpenViewEvent(triggerID, view, ok) ==
    [ev |-> "openview", trigger_id |-> triggerID, view |-> view, ok |-> ok]

Effects(trace, poppit, slack, modal) ==
    [trace |-> trace, poppit |-> poppit, slack |-> slack, modal |-> modal]

\* Variant of sendNewRepoConfirmation that pushes the notification twice.
sendNewRepoConfirmationTwice(l, cfg, repoFullName, repoDesc, slackOk) ==
    LET slackMessage ==
            MarshalSlackLinerMessage(SlackLinerMessage(cfg, repoFullName, repoDesc))
        push == <<RPushEvent("slackliner", slackMessage, slackOk)>>
    IN IF ~slackOk
       THEN Effects(push \o Error(l, "Failed to push to SlackLiner list"),
                    <<>>, <<>>, <<>>)
       ELSE Effects(push \o Info(l, "Successfully sent confirmation message"),
                    <<>>, <<slackMessage, slackMessage>>, <<>>)

\* sendNewRepoConfirmation; slackOk is the outcome of its RPush.
sendNewRepoConfirmation(l, cfg, repoFullName, repoDesc, slackOk) ==
    LET slackMessage ==
            MarshalSlackLinerMessage(SlackLinerMessage(cfg, repoFullName, repoDesc))
        push == <<RPushEvent("slackliner", slackMessage, slackOk)>>
    IN IF ~slackOk
       THEN Effects(push \o Error(l, "Failed to push to SlackLiner list"),
                    <<>>, <<>>, <<>>)
       ELSE Effects(push \o Info(l, "Successfully sent confirmation message"),
                    <<>>, <<slackMessage>>, <<>>)

\* Variant of PushPoppitCommand that sends the confirmation before it
\* pushes the task.
PushPoppitCommandConfirmFirst(l, cfg, repoFullName, repoDesc, poppitCmd, poppitOk, slackOk) ==
    LET c == sendNewRepoConfirmation(l, cfg, repoFullName, repoDesc, slackOk)
        t0 == c.trace \o <<RPushEvent("poppit", poppitCmd, poppitOk)>>
    IN IF ~poppitOk
       THEN Effects(t0 \o Error(l, "Failed to push to Poppit list"),
                    <<>>, c.slack, <<>>)
       ELSE Effects(t0 \o Info(l, "Successfully pushed Poppit command"),
                    <<poppitCmd>>, c.slack, <<>>)

\* Variant of PushPoppitCommand that goes on to the confirmation after a
\* failed push of the task.
PushPoppitCommandNoReturn(l, cfg, repoFullName, repoDesc, poppitCmd, poppitOk, slackOk) ==
    LET t0 == <<RPushEvent("poppit", poppitCmd, poppitOk)>>
        t1 == IF ~poppitOk
              THEN t0 \o Error(l, "Failed to push to Poppit list")
              ELSE t0 \o Info(l, "Successfully pushed Poppit command")
                      \o Debug(l, "Poppit command payload")
        c == sendNewRepoConfirmation(l, cfg, repoFullName, repoDesc, slackOk)
    IN Effects(t1 \o c.trace, IF poppitOk THEN <<poppitCmd>> ELSE <<>>,
               c.slack, <<>>)

\* Variant of PushPoppitCommand that takes the task back when the
\* confirmation could not be pushed.
PushPoppitCommandRollback(l, cfg, repoFullName, repoDesc, poppitCmd, poppitOk, slackOk) ==
    LET t0 == <<RPushEvent("poppit", poppitCmd, poppitOk)>> IN
    IF ~poppitOk
    THEN Effects(t0 \o Error(l, "Failed to push to Poppit list"),
                 <<>>, <<>>, <<>>)
    ELSE
    LET t1 == t0 \o Info(l, "Successfully pushed Poppit command")
                 \o Debug(l, "Poppit command payload")
        c == sendNewRepoConfirmation(l, cfg, repoFullName, repoDesc, slackOk)
    IN Effects(t1 \o c.trace, IF slackOk THEN <<poppitCmd>> ELSE <<>>,
               c.slack, <<>>)

\* The end of handleViewSubmission, from "Push to Poppit list": the RPush
\* of the task, and the confirmation when it succeeded.  poppitOk and slackOk
\* are the outcomes of the two RPush calls.  (json.Marshal cannot fail on
\* these records of strings.)
PushPoppitCommand(l, cfg, repoFullName, repoDesc, poppitCmd, poppitOk, slackOk) ==
    LET t0 == <<RPushEvent("poppit", poppitCmd, poppitOk)>> IN
    IF ~poppitOk
    THEN Effects(t0 \o Error(l, "Failed to push to Poppit list"),
                 <<>>, <<>>, <<>>)
    ELSE
    LET t1 == t0 \o Info(l, "Successfully pushed Poppit command")
                 \o Debug(l, "Poppit command payload")
        c == sendNewRepoConfirmation(l, cfg, repoFullName, repoDesc, slackOk)
    IN Effects(t1 \o c.trace, <<poppitCmd>>, c.slack, <<>>)

\* A submission handler that opens a form again when the name
\* is not valid.
handleViewSubmissionReopen(l, cfg, payload, values, poppitOk, slackOk) ==
    LET t0 == Debug(l, "Received view submission") IN
    IF ~payload.decodes
    THEN Effects(t0 \o Error(l, "Failed to unmarshal view submission payload"),
                 <<>>, <<>>, <<>>)
    ELSE IF payload.callback_id # NewRepoModalCallbackID
    THEN Effects(t0 \o Debug(l, "Ignoring view submission"), <<>>, <<>>, <<>>)
    ELSE
    LET t1 == t0 \o <<ExtractEvent(values)>> \o Debug(l, "Extracted values")
        ok == "repo-name" \in DOMAIN values
        repoName == MapGet(values, "repo-name")
    IN
    IF ~ok \/ repoName = <<>>
    THEN Effects(t1 \o Error(l, "Missing repository name in view submission"),
                 <<>>, <<>>, <<>>)
    ELSE IF ~isValidRepoName(repoName)
    THEN LET call == OpenViewEvent("", [callback_id |-> NewRepoModalCallbackID], TRUE)
         IN Effects(t1 \o Error(l, "Invalid repository name") \o <<call>>,
                    <<>>, <<>>, <<call>>)
    ELSE
    LET repoDesc == MapGet(values, "repo-description")
        repoFullName == RepoFullName(cfg, repoName)
        poppitCmd == PoppitCommand(cfg, repoName, repoDesc)
        r == PushPoppitCommand(l, cfg, repoFullName, repoDesc, poppitCmd,
                               poppitOk, slackOk)
    IN Effects(t1 \o r.trace, r.poppit, r.slack, <<>>)

\* A submission handler that also ignores a payload whose type is not
\* view_submission.
handleViewSubmissionTyped(l, cfg, payload, values, poppitOk, slackOk) ==
    LET t0 == Debug(l, "Received view submission") IN
    IF ~payload.decodes
    THEN Effects(t0 \o Error(l, "Failed to unmarshal view submission payload"),
                 <<>>, <<>>, <<>>)
    ELSE IF payload.type # "view_submission"
    THEN Effects(t0 \o Debug(l, "Ignoring view submission"), <<>>, <<>>, <<>>)
    ELSE IF payload.callback_id # NewRepoModalCallbackID
    THEN Effects(t0 \o Debug(l, "Ignoring view submission"), <<>>, <<>>, <<>>)
    ELSE
    LET t1 == t0 \o <<ExtractEvent(values)>> \o Debug(l, "Extracted values")
        ok == "repo-name" \in DOMAIN values
        repoName == MapGet(values, "repo-name")
    IN
    IF ~ok \/ repoName = <<>>
    THEN Effects(t1 \o Error(l, "Missing repository name in view submission"),
                 <<>>, <<>>, <<>>)
    ELSE IF ~isValidRepoName(repoName)
    THEN Effects(t1 \o Error(l, "Invalid repository name"), <<>>, <<>>, <<>>)
    ELSE
    LET repoDesc == MapGet(values, "repo-description")
        repoFullName == RepoFullName(cfg, repoName)
        poppitCmd == PoppitCommand(cfg, repoName, repoDesc)
        r == PushPoppitCommand(l, cfg, repoFullName, repoDesc, poppitCmd,
                               poppitOk, slackOk)
    IN Effects(t1 \o r.trace, r.poppit, r.slack, <<>>)

\* handleViewSubmission on a payload; values is the map extractViewValues
\* returns for it.
handleViewSubmission(l, cfg, payload, values, poppitOk, slackOk) ==
    LET t0 == Debug(l, "Received view submission") IN
    IF ~payload.decodes
    THEN Effects(t0 \o Error(l, "Failed to unmarshal view submission payload"),
                 <<>>, <<>>, <<>>)
    ELSE IF payload.callback_id # NewRepoModalCallbackID
    THEN Effects(t0 \o Debug(l, "Ignoring view submission"), <<>>, <<>>, <<>>)
    ELSE
    LET t1 == t0 \o <<ExtractEvent(values)>> \o Debug(l, "Extracted values")
        ok == "repo-name" \in DOMAIN values
        repoName == MapGet(values, "repo-name")
    IN
    IF ~ok \/ repoName = <<>>
    THEN Effects(t1 \o Error(l, "Missing repository name in view submission"),
                 <<>>, <<>>, <<>>)
    ELSE IF ~isValidRepoName(repoName)
    THEN Effects(t1 \o Error(l, "Invalid repository name"), <<>>, <<>>, <<>>)
    ELSE
    LET repoDesc == MapGet(values, "repo-description")
        repoFullName == RepoFullName(cfg, repoName)
        poppitCmd == PoppitCommand(cfg, repoName, repoDesc)
        r == PushPoppitCommand(l, cfg, repoFullName, repoDesc, poppitCmd,
                               poppitOk, slackOk)
    IN Effects(t1 \o r.trace, r.poppit, r.slack, <<>>)

\* A modal built with a callback id of its own.
createNewRepoModalOwnID(repoName) ==
    [type        |-> "modal",
     callback_id |-> "new_repo_modal",
     blocks      |->
        <<[block_id      |-> "repo-name",
           action_id     |-> "repo_name_input",
           has_initial   |-> repoName # <<>>,
           initial_value |-> IF repoName # <<>> THEN repoName ELSE <<>>,
           optional      |-> FALSE],
          [block_id      |-> "repo-description",
           action_id     |-> "repo_desc_input",
           has_initial   |-> FALSE,
           initial_value |-> <<>>,
           optional      |-> TRUE],
          [block_id      |-> "ai-prompt",
           action_id     |-> "ai_prompt_input",
           has_initial   |-> FALSE,
           initial_value |-> <<>>,
           optional      |-> TRUE]>>]

\* A modal whose repo-name input always carries an initial value.
createNewRepoModalAlwaysInitial(repoName) ==
    [type        |-> "modal",
     callback_id |-> NewRepoModalCallbackID,
     blocks      |->
        <<[block_id      |-> "repo-name",
           action_id     |-> "repo_name_input",
           has_initial   |-> TRUE,
           initial_value |-> repoName,
           optional      |-> FALSE],
          [block_id      |-> "repo-description",
           action_id     |-> "repo_desc_input",
           has_initial   |-> FALSE,
           initial_value |-> <<>>,
           optional      |-> TRUE],
          [block_id      |-> "ai-prompt",
           action_id     |-> "ai_prompt_input",
           has_initial   |-> FALSE,
           initial_value |-> <<>>,
           optional      |-> TRUE]>>]

\* createNewRepoModal: the modal view request, as its callback id and its
\* input blocks in order.  initial_value is <<>> when none is set.
createNewRepoModal(repoName) ==
    [type        |-> "modal",
     callback_id |-> NewRepoModalCallbackID,
     blocks      |->
        <<[block_id      |-> "repo-name",
           action_id     |-> "repo_name_input",
           has_initial   |-> repoName # <<>>,
           initial_value |-> IF repoName # <<>> THEN repoName ELSE <<>>,
           optional      |-> FALSE],
          [block_id      |-> "repo-description",
           action_id     |-> "repo_desc_input",
           has_initial   |-> FALSE,
           initial_value |-> <<>>,
           optional      |-> TRUE],
          [block_id      |-> "ai-prompt",
           action_id     |-> "ai_prompt_input",
           has_initial   |-> FALSE,
           initial_value |-> <<>>,
           optional      |-> TRUE]>>]

\* A handler that calls OpenViewContext a second time when the call
\* failed.
handleNewRepoCommandRetry(l, cmd, openOk) ==
    LET t0 == Debug(l, "Handling /new-repo command")
        modalView == createNewRepoModal(cmd.text)
        call == OpenViewEvent(cmd.trigger_id, modalView, openOk)
    IN IF ~openOk
       THEN Effects(t0 \o <<call, call>> \o Error(l, "Failed to open modal"),
                    <<>>, <<>>, <<call, call>>)
       ELSE Effects(t0 \o <<call>> \o Info(l, "Successfully opened new-repo modal"),
                    <<>>, <<>>, <<call>>)

\* handleNewRepoCommand; openOk is the outcome of OpenViewContext.
handleNewRepoCommand(l, cmd, openOk) ==
    LET t0 == Debug(l, "Handling /new-repo command")
        modalView == createNewRepoModal(cmd.text)
        call == OpenViewEvent(cmd.trigger_id, modalView, openOk)
    IN IF ~openOk
       THEN Effects(t0 \o <<call>> \o Error(l, "Failed to open modal"),
                    <<>>, <<>>, <<call>>)
       ELSE Effects(t0 \o <<call>> \o Info(l, "Successfully opened new-repo modal"),
                    <<>>, <<>>, <<call>>)

\* A handler that logs the decoding error and goes on with the zero value
\* of the payload instead of returning.
handleMessageNoReturn(l, payload, openOk) ==
    LET t0 == Debug(l, "Received message") IN
    IF ~payload.decodes
    THEN Effects(t0 \o Error(l, "Failed to unmarshal payload")
                    \o Info(l, "Processing command")
                    \o Warn(l, "Unknown command"), <<>>, <<>>, <<>>)
    ELSE
    LET t1 == t0 \o Info(l, "Processing command") IN
    IF payload.command = "/new-repo"
    THEN LET r == handleNewRepoCommand(l, payload, openOk)
         IN Effects(t1 \o r.trace, <<>>, <<>>, r.modal)
    ELSE Effects(t1 \o Warn(l, "Unknown command"), <<>>, <<>>, <<>>)

\* A handler without the switch on the command name: every command that
\* decodes opens the modal.
handleMessageAnyCommand(l, payload, openOk) ==
    LET t0 == Debug(l, "Received message") IN
    IF ~payload.decodes
    THEN Effects(t0 \o Error(l, "Failed to unmarshal payload"), <<>>, <<>>, <<>>)
    ELSE
    LET t1 == t0 \o Info(l, "Processing command")
        r == handleNewRepoCommand(l, payload, openOk)
    IN Effects(t1 \o r.trace, <<>>, <<>>, r.modal)

\* handleMessage on a payload of the command stream.
handleMessage(l, payload, openOk) ==
    LET t0 == Debug(l, "Received message") IN
    IF ~payload.decodes
    THEN Effects(t0 \o Error(l, "Failed to unmarshal payload"), <<>>, <<>>, <<>>)
    ELSE
    LET t1 == t0 \o Info(l, "Processing command") IN
    IF payload.command = "/new-repo"
    THEN LET r == handleNewRepoCommand(l, payload, openOk)
         IN Effects(t1 \o r.trace, <<>>, <<>>, r.modal)
    ELSE Effects(t1 \o Warn(l, "Unknown command"), <<>>, <<>>, <<>>)

\* ------------------------------------------------------------------------
\* Inputs: environments and messages
\* ------------------------------------------------------------------------

StrAcme == <<"a","c","m","e">>

StrWidget == <<"w","i","d","g","e","t">>

StrMyRepo == <<"m","y"," ","r","e","p","o">>

StrItsMine == <<"I","t","'","s"," ","m","i","n","e">>

StrWork == <<"/","w">>

StrToken == <<"x","o","x","b">>

StrOpsChannel == <<"#","o","p","s">>

\* The environments the process can be started in: the token and the
\* organisation set or not, three log levels, a working directory that is
\* set in the environments that set the debug level, and a channel that is
\* set in the environments that set the error level.
Environments ==
    {[SLACK_BOT_TOKEN        |-> t,
      SLACK_CHANNEL_NEW_REPO |-> IF l = StrError THEN StrOpsChannel ELSE <<>>,
      GITHUB_ORG             |-> o,
      WORKING_DIR            |-> IF l = StrDebug THEN StrWork ELSE <<>>,
      LOG_LEVEL              |-> l] :
        t \in {<<>>, StrToken}, o \in {<<>>, StrAcme},
        l \in {<<>>, StrDebug, StrError}}

\* A message of a stream: nil, or a message with a payload.
NilMsg == [isNil |-> TRUE]

Msg(payload) == [isNil |-> FALSE, Payload |-> payload]

\* Payloads of the command stream: what json.Unmarshal makes of them.
BadCommand ==
    [decodes |-> FALSE, command |-> "", text |-> <<>>, trigger_id |-> "",
     user_name |-> ""]

Command(command, text, triggerID) ==
    [decodes |-> TRUE, command |-> command, text |-> text,
     trigger_id |-> triggerID, user_name |-> "u1"]

CommandPayloads ==
    {BadCommand,
     Command("/new-repo", <<>>, "T1"),
     Command("/new-repo", StrWidget, "T2"),
     Command("/other", StrWidget, "T3"),
     Command("", <<>>, "T4")}

\* A value object of view.state.values.
Field(v) == [type |-> "plain_text_input", value |-> v]

NoFields == [a \in {} |-> Field(<<>>)]

OneField(a, v) == [x \in {a} |-> Field(v)]

TwoFields(a, v, b, w) == [x \in {a, b} |-> IF x = a THEN Field(v) ELSE Field(w)]

\* view.state.values with the given groups present.
Values(groups, nameFields, descFields, aiFields) ==
    [g \in groups |->
        IF g = "repo-name" THEN nameFields
        ELSE IF g = "repo-description" THEN descFields
        ELSE aiFields]

NameAndDesc == {"repo-name", "repo-description"}

AllGroups == {"repo-name", "repo-description", "ai-prompt"}

BadSubmission ==
    [decodes |-> FALSE, type |-> "", callback_id |-> "",
     values |-> Values({}, NoFields, NoFields, NoFields)]

Submission(type, callbackID, values) ==
    [decodes |-> TRUE, type |-> type, callback_id |-> callbackID,
     values |-> values]

NameFieldOptions ==
    {NoFields,
     OneField("repo_name_input", <<>>),
     OneField("repo_name_input", StrWidget),
     OneField("repo_name_input", StrMyRepo),
     TwoFields("repo_name_input", StrWidget, "other_input", StrMyRepo)}

\* Payloads of the submission stream.
SubmissionPayloads ==
    {BadSubmission}
    \cup {Submission("view_submission", NewRepoModalCallbackID,
                     Values(NameAndDesc, n,
                            OneField("repo_desc_input", StrItsMine), NoFields)) :
            n \in NameFieldOptions}
    \cup {Submission("view_submission", NewRepoModalCallbackID,
                     Values(NameAndDesc, OneField("repo_name_input", StrWidget),
                            OneField("repo_desc_input", <<>>), NoFields)),
          Submission("view_submission", NewRepoModalCallbackID,
                     Values({"repo-description"}, NoFields,
                            OneField("repo_desc_input", StrItsMine), NoFields)),
          Submission("view_submission", NewRepoModalCallbackID,
                     Values({"repo-name"}, OneField("repo_name_input", StrWidget),
                            NoFields, NoFields)),
          Submission("view_submission", "other_modal",
                     Values(NameAndDesc, OneField("repo_name_input", StrWidget),
                            OneField("repo_desc_input", StrItsMine), NoFields)),
          Submission("block_actions", NewRepoModalCallbackID,
                     Values(AllGroups, OneField("repo_name_input", StrWidget),
                            OneField("repo_desc_input", StrItsMine),
                            OneField("ai_prompt_input", StrItsMine)))}

\* ------------------------------------------------------------------------
\* State
\* ------------------------------------------------------------------------

VARIABLES
    env,               \* the environment of the process
    pc,                \* where main is: Startup, Fatal, Idle,
                       \* RoutingCommand, RoutingSubmission, Shutdown
    cancelled,         \* ctx is cancelled
    ch,                \* messages pending on the command stream
    viewSubmissionCh,  \* messages pending on the submission stream
    published,         \* messages published so far
    cur,               \* the message the loop took last
    trace,             \* log entries and external calls of its handler
    poppitList,        \* the task queue (config.RedisPoppitList)
    slackLinerList,    \* the notification queue (config.RedisSlackLinerList)
    modalCalls,        \* the OpenViewContext calls made
    fnOp,              \* the pure function applied ("none" before)
    fnArg,             \* its argument
    fnRes              \* its result

fnVars == <<fnOp, fnArg, fnRes>>

mainVars == <<env, pc, cancelled, ch, viewSubmissionCh, published, cur, trace,
              poppitList, slackLinerList, modalCalls>>

vars == <<mainVars, fnVars>>

NoArg == [kind |-> "none"]

\* config and logger of main once loadConfig has succeeded.
config == loadConfig(env).config

logger == NewLogger(config.LogLevel)

NoMessage == [stream |-> "none", msg |-> NilMsg]

Init ==
    /\ env \in Environments
    /\ pc = "Startup"
    /\ cancelled = FALSE
    /\ ch = <<>>
    /\ viewSubmissionCh = <<>>
    /\ published = 0
    /\ cur = NoMessage
    /\ trace = <<>>
    /\ poppitList = <<>>
    /\ slackLinerList = <<>>
    /\ modalCalls = <<>>
    /\ fnOp = "none"
    /\ fnArg = NoArg
    /\ fnRes = <<>>

\* ------------------------------------------------------------------------
\* Environment
\* ------------------------------------------------------------------------

Running == pc \in {"Idle", "RoutingCommand", "RoutingSubmission"}

\* The signal goroutine of main: a termination signal cancels ctx.
Cancel ==
    /\ pc \in {"Startup", "Idle", "RoutingCommand", "RoutingSubmission"}
    /\ ~cancelled
    /\ cancelled' = TRUE
    /\ UNCHANGED <<env, pc, ch, viewSubmissionCh, published, cur, trace,
                   poppitList, slackLinerList, modalCalls, fnVars>>

\* A publisher puts a message on the command stream.
PublishCommand ==
    /\ Running
    /\ published < MaxMsgs
    /\ \E m \in {Msg(p) : p \in CommandPayloads} \cup {NilMsg} :
          ch' = Append(ch, m)
    /\ published' = published + 1
    /\ UNCHANGED <<env, pc, cancelled, viewSubmissionCh, cur, trace,
                   poppitList, slackLinerList, modalCalls, fnVars>>

\* A publisher puts a message on the submission stream.
PublishSubmission ==
    /\ Running
    /\ published < MaxMsgs
    /\ \E m \in {Msg(p) : p \in SubmissionPayloads} \cup {NilMsg} :
          viewSubmissionCh' = Append(viewSubmissionCh, m)
    /\ published' = published + 1
    /\ UNCHANGED <<env, pc, cancelled, ch, cur, trace,
                   poppitList, slackLinerList, modalCalls, fnVars>>

\* ------------------------------------------------------------------------
\* main
\* ------------------------------------------------------------------------

\* Logger.Fatal: the entry is written whatever the level, and the process
\* exits.
FatalEntry(msg) == [ev |-> "fatal", msg |-> msg]

\* The Redis ping of main and its outcome.
PingEvent(ok) == [ev |-> "ping", ok |-> ok]

\* The Receive that confirms the subscription to a stream, and its outcome.
ReceiveEvent(stream, ok) == [ev |-> "receive", stream |-> stream, ok |-> ok]

\* A main that does not look at the result of the second Receive.
startupUncheckedViewSubscription(e, pingOk, subOk, viewSubOk) ==
    IF ~loadConfig(e).ok
    THEN [ok |-> FALSE, trace |-> <<FatalEntry("Failed to load configuration")>>]
    ELSE IF ~pingOk
    THEN [ok |-> FALSE,
          trace |-> <<PingEvent(FALSE), FatalEntry("Failed to connect to Redis")>>]
    ELSE IF ~subOk
    THEN [ok |-> FALSE,
          trace |-> <<PingEvent(TRUE), ReceiveEvent("command", FALSE),
                      FatalEntry("Failed to subscribe to Redis channel")>>]
    ELSE [ok |-> TRUE,
          trace |-> <<PingEvent(TRUE), ReceiveEvent("command", TRUE),
                      ReceiveEvent("submission", viewSubOk)>>]

\* main up to its loop, as the calls it makes in program order: loadConfig,
\* the Redis ping, and the Receive of each subscription.  The first failure
\* is fatal, and nothing after it is run.
startup(e, pingOk, subOk, viewSubOk) ==
    IF ~loadConfig(e).ok
    THEN [ok |-> FALSE, trace |-> <<FatalEntry("Failed to load configuration")>>]
    ELSE IF ~pingOk
    THEN [ok |-> FALSE,
          trace |-> <<PingEvent(FALSE), FatalEntry("Failed to connect to Redis")>>]
    ELSE IF ~subOk
    THEN [ok |-> FALSE,
          trace |-> <<PingEvent(TRUE), ReceiveEvent("command", FALSE),
                      FatalEntry("Failed to subscribe to Redis channel")>>]
    ELSE IF ~viewSubOk
    THEN [ok |-> FALSE,
          trace |-> <<PingEvent(TRUE), ReceiveEvent("command", TRUE),
                      ReceiveEvent("submission", FALSE),
                      FatalEntry("Failed to subscribe to view submission channel")>>]
    ELSE [ok |-> TRUE,
          trace |-> <<PingEvent(TRUE), ReceiveEvent("command", TRUE),
                      ReceiveEvent("submission", TRUE)>>]

\* main up to its loop.  A context cancelled before the confirmations makes
\* the Receive calls fail.
Startup ==
    /\ pc = "Startup"
    /\ \E pingOk, subOk, viewSubOk \in BOOLEAN :
          LET r == startup(env, pingOk, subOk /\ ~cancelled,
                           viewSubOk /\ ~cancelled) IN
          /\ pc' = IF r.ok THEN "Idle" ELSE "Fatal"
          /\ trace' = r.trace
    /\ UNCHANGED <<env, cancelled, ch, viewSubmissionCh, published, cur,
                   poppitList, slackLinerList, modalCalls, fnVars>>

\* A loop that the cancellation ends wherever it is, a running handler
\* included.
LoopShutdownAnywhere ==
    /\ Running
    /\ cancelled
    /\ pc' = "Shutdown"
    /\ UNCHANGED <<env, cancelled, ch, viewSubmissionCh, published, cur,
                   trace, poppitList, slackLinerList, modalCalls, fnVars>>

\* A loop that leaves only once both streams are drained.
LoopShutdownWhenDrained ==
    /\ pc = "Idle"
    /\ cancelled
    /\ ch = <<>>
    /\ viewSubmissionCh = <<>>
    /\ pc' = "Shutdown"
    /\ UNCHANGED <<env, cancelled, ch, viewSubmissionCh, published, cur,
                   trace, poppitList, slackLinerList, modalCalls, fnVars>>

\* select: case <-ctx.Done().
LoopShutdown ==
    /\ pc = "Idle"
    /\ cancelled
    /\ pc' = "Shutdown"
    /\ UNCHANGED <<env, cancelled, ch, viewSubmissionCh, published, cur,
                   trace, poppitList, slackLinerList, modalCalls, fnVars>>

\* A loop that takes a command while the handler of a submission is still
\* running, as it would if it started its handlers as goroutines.
LoopRecvCommandConcurrent ==
    /\ pc \in {"Idle", "RoutingSubmission"}
    /\ ch # <<>>
    /\ ch' = Tail(ch)
    /\ IF Head(ch).isNil
       THEN UNCHANGED <<pc, cur, trace>>
       ELSE /\ pc' = "RoutingCommand"
            /\ cur' = [stream |-> "command", msg |-> Head(ch)]
            /\ trace' = <<>>
    /\ UNCHANGED <<env, cancelled, viewSubmissionCh, published, poppitList,
                   slackLinerList, modalCalls, fnVars>>

\* A loop that takes an absent message of the command stream for the end of
\* the stream and leaves.
LoopRecvCommandNilEnds ==
    /\ pc = "Idle"
    /\ ch # <<>>
    /\ ch' = Tail(ch)
    /\ IF Head(ch).isNil
       THEN pc' = "Shutdown" /\ UNCHANGED <<cur, trace>>
       ELSE /\ pc' = "RoutingCommand"
            /\ cur' = [stream |-> "command", msg |-> Head(ch)]
            /\ trace' = <<>>
    /\ UNCHANGED <<env, cancelled, viewSubmissionCh, published,
                   poppitList, slackLinerList, modalCalls, fnVars>>

\* select: case msg := <-ch, up to the call of handleMessage.
LoopRecvCommand ==
    /\ pc = "Idle"
    /\ ch # <<>>
    /\ ch' = Tail(ch)
    /\ IF Head(ch).isNil
       THEN UNCHANGED <<pc, cur, trace>>
       ELSE /\ pc' = "RoutingCommand"
            /\ cur' = [stream |-> "command", msg |-> Head(ch)]
            /\ trace' = <<>>
    /\ UNCHANGED <<env, cancelled, viewSubmissionCh, published,
                   poppitList, slackLinerList, modalCalls, fnVars>>

\* A loop that takes a submission only when no command is pending.
LoopRecvSubmissionAfterCommands ==
    /\ pc = "Idle"
    /\ ch = <<>>
    /\ viewSubmissionCh # <<>>
    /\ viewSubmissionCh' = Tail(viewSubmissionCh)
    /\ IF Head(viewSubmissionCh).isNil
       THEN UNCHANGED <<pc, cur, trace>>
       ELSE /\ pc' = "RoutingSubmission"
            /\ cur' = [stream |-> "submission", msg |-> Head(viewSubmissionCh)]
            /\ trace' = <<>>
    /\ UNCHANGED <<env, cancelled, ch, published,
                   poppitList, slackLinerList, modalCalls, fnVars>>

\* A loop that takes the submission delivered last.
LoopRecvSubmissionNewestFirst ==
    /\ pc = "Idle"
    /\ viewSubmissionCh # <<>>
    /\ viewSubmissionCh' = SubSeq(viewSubmissionCh, 1, Len(viewSubmissionCh) - 1)
    /\ IF viewSubmissionCh[Len(viewSubmissionCh)].isNil
       THEN UNCHANGED <<pc, cur, trace>>
       ELSE /\ pc' = "RoutingSubmission"
            /\ cur' = [stream |-> "submission",
                       msg |-> viewSubmissionCh[Len(viewSubmissionCh)]]
            /\ trace' = <<>>
    /\ UNCHANGED <<env, cancelled, ch, published,
                   poppitList, slackLinerList, modalCalls, fnVars>>

\* select: case msg := <-viewSubmissionCh, up to the call of
\* handleViewSubmission.
LoopRecvSubmission ==
    /\ pc = "Idle"
    /\ viewSubmissionCh # <<>>
    /\ viewSubmissionCh' = Tail(viewSubmissionCh)
    /\ IF Head(viewSubmissionCh).isNil
       THEN UNCHANGED <<pc, cur, trace>>
       ELSE /\ pc' = "RoutingSubmission"
            /\ cur' = [stream |-> "submission", msg |-> Head(viewSubmissionCh)]
            /\ trace' = <<>>
    /\ UNCHANGED <<env, cancelled, ch, published,
                   poppitList, slackLinerList, modalCalls, fnVars>>

\* A command handler whose failure to open the modal ends the process.
HandleMessageFatalOnFailure ==
    /\ pc = "RoutingCommand"
    /\ \E openOk \in BOOLEAN :
          LET r == handleMessage(logger, cur.msg.Payload, openOk) IN
          /\ trace' = r.trace
          /\ modalCalls' = modalCalls \o r.modal
          /\ poppitList' = poppitList \o r.poppit
          /\ slackLinerList' = slackLinerList \o r.slack
          /\ pc' = IF r.modal # <<>> /\ ~openOk THEN "Fatal" ELSE "Idle"
    /\ UNCHANGED <<env, cancelled, ch, viewSubmissionCh, published, cur,
                   fnVars>>

\* The call of handleMessage, to its return.
HandleMessage ==
    /\ pc = "RoutingCommand"
    /\ \E openOk \in BOOLEAN :
          LET r == handleMessage(logger, cur.msg.Payload, openOk) IN
          /\ trace' = r.trace
          /\ modalCalls' = modalCalls \o r.modal
          /\ poppitList' = poppitList \o r.poppit
          /\ slackLinerList' = slackLinerList \o r.slack
    /\ pc' = "Idle"
    /\ UNCHANGED <<env, cancelled, ch, viewSubmissionCh, published, cur,
                   fnVars>>

\* A submission handler that remembers the repositories it has asked for
\* and drops a submission that names one of them again.
HandleViewSubmissionDeduplicating ==
    /\ pc = "RoutingSubmission"
    /\ \E values \in extractViewValues(cur.msg.Payload.values) :
       \E poppitOk, slackOk \in BOOLEAN :
          LET r == handleViewSubmission(logger, config, cur.msg.Payload,
                                        values, poppitOk, slackOk)
              seen == /\ r.poppit # <<>>
                      /\ \E i \in 1..Len(poppitList) :
                            poppitList[i].repo = r.poppit[1].repo
          IN
          /\ trace' = IF seen THEN <<>> ELSE r.trace
          /\ modalCalls' = modalCalls \o r.modal
          /\ poppitList' = IF seen THEN poppitList ELSE poppitList \o r.poppit
          /\ slackLinerList' = IF seen THEN slackLinerList
                               ELSE slackLinerList \o r.slack
    /\ pc' = "Idle"
    /\ UNCHANGED <<env, cancelled, ch, viewSubmissionCh, published, cur,
                   fnVars>>

\* The call of handleViewSubmission, to its return.
HandleViewSubmission ==
    /\ pc = "RoutingSubmission"
    /\ \E values \in extractViewValues(cur.msg.Payload.values) :
       \E poppitOk, slackOk \in BOOLEAN :
          LET r == handleViewSubmission(logger, config, cur.msg.Payload,
                                        values, poppitOk, slackOk) IN
          /\ trace' = r.trace
          /\ modalCalls' = modalCalls \o r.modal
          /\ poppitList' = poppitList \o r.poppit
          /\ slackLinerList' = slackLinerList \o r.slack
    /\ pc' = "Idle"
    /\ UNCHANGED <<env, cancelled, ch, viewSubmissionCh, published, cur,
                   fnVars>>

Next ==
    \/ Cancel
    \/ PublishCommand
    \/ PublishSubmission
    \/ Startup
    \/ LoopShutdown
    \/ LoopRecvCommand
    \/ LoopRecvSubmission
    \/ HandleMessage
    \/ HandleViewSubmission

Spec == Init /\ [][Next]_vars

\* ------------------------------------------------------------------------
\* The loop under messages that never stop arriving.  The streams deliver
\* without end, before and after the cancellation, limited only by the
\* capacity of the two channels; what arrives is nil or does not decode,
\* so that the queues and the record of calls stay finite.  The process is
\* started in an environment that passes loadConfig and logs errors only.
\* ------------------------------------------------------------------------

ArriveCommand ==
    /\ Running
    /\ Len(ch) + Len(viewSubmissionCh) < MaxMsgs
    /\ \E m \in {NilMsg, Msg(BadCommand)} : ch' = Append(ch, m)
    /\ UNCHANGED <<env, pc, cancelled, viewSubmissionCh, published, cur, trace,
                   poppitList, slackLinerList, modalCalls, fnVars>>

ArriveSubmission ==
    /\ Running
    /\ Len(ch) + Len(viewSubmissionCh) < MaxMsgs
    /\ \E m \in {NilMsg, Msg(BadSubmission)} :
          viewSubmissionCh' = Append(viewSubmissionCh, m)
    /\ UNCHANGED <<env, pc, cancelled, ch, published, cur, trace,
                   poppitList, slackLinerList, modalCalls, fnVars>>

InitLive ==
    /\ Init
    /\ loadConfig(env).ok
    /\ env.LOG_LEVEL = StrError

NextLive ==
    \/ Cancel
    \/ ArriveCommand
    \/ ArriveSubmission
    \/ Startup
    \/ LoopShutdown
    \/ LoopRecvCommand
    \/ LoopRecvSubmission
    \/ HandleMessage
    \/ HandleViewSubmission

\* The loop goroutine is scheduled: every handler that has started
\* returns, and the select does not wait while ctx.Done() is ready.  The
\* select chooses among its ready cases uniformly at random, so the case
\* of ctx.Done(), ready at every wait after the cancellation, is chosen in
\* the end.
SpecLive ==
    /\ InitLive
    /\ [][NextLive]_vars
    /\ WF_vars(HandleMessage)
    /\ WF_vars(HandleViewSubmission)
    /\ SF_vars(LoopShutdown)

TypeOK ==
    /\ pc \in {"Startup", "Fatal", "Idle", "RoutingCommand",
               "RoutingSubmission", "Shutdown"}
    /\ cancelled \in BOOLEAN
    /\ published \in 0..MaxMsgs
    /\ Len(ch) + Len(viewSubmissionCh) <= MaxMsgs

\* ------------------------------------------------------------------------
\* The pure functions on their own: an input is drawn and one function is
\* applied to it.
\* ------------------------------------------------------------------------

StrMyRepo20 == <<"M","y","-","R","e","p","o","_","2",".","0">>

StrSmallTool == <<"A"," ","s","m","a","l","l"," ","t","o","o","l">>

\* Characters at and around the edges of the validator's classes, the
\* quote and the backslash, and a character of two bytes.
FnAlphabet ==
    {"a", "z", "A", "Z", "0", "9", "-", "_", ".", " ", "@", "[", "U+0060",
     "{", "/", ":", "'", "\\", "U+00E9"}

Strings(alphabet, n) == UNION {[1..k -> alphabet] : k \in 0..n}

\* Strings at the length limit: one below, at and one above it, in
\* characters and in bytes.
LongStrings ==
    {Repeat("a", n) : n \in {MaxRepoNameLen - 1, MaxRepoNameLen,
                             MaxRepoNameLen + 1}}
    \cup {Repeat("U+00E9", n) : n \in {MaxRepoNameLen \div 2,
                                       MaxRepoNameLen \div 2 + 1,
                                       MaxRepoNameLen}}
    \cup {Repeat("a", MaxRepoNameLen - 1) \o <<c>> : c \in {".", " ", "U+00E9"}}

NameInputs ==
    {[kind |-> "name", s |-> s] :
        s \in Strings(FnAlphabet, MaxStrLen) \cup LongStrings
              \cup {StrMyRepo20, StrMyRepo, StrWidget}}

\* The characters of descriptions: those above and characters that a shell
\* gives a meaning to outside quotes.
DescAlphabet == FnAlphabet \cup {"\n", "$", ";", "\"", "|"}

DescInputs ==
    {[kind |-> "desc", s |-> s] :
        s \in Strings(DescAlphabet, MaxStrLen)
              \cup {StrItsMine, StrSmallTool, <<"'","'","a","'">>}}

BuildInputs ==
    {[kind |-> "build", owner |-> o, dir |-> d, name |-> n, desc |-> x] :
        o \in {StrAcme, <<"o">>},
        d \in {StrTmp, StrWork},
        n \in {StrWidget, StrMyRepo20, <<"a">>},
        x \in Strings({"a", "'", " ", "\\"}, MaxStrLen)
              \cup {StrItsMine, StrSmallTool}}

\* The fields a block of a submission can carry: none, one, or two under
\* different action ids.
FieldOptions ==
    LET vals == {<<>>, StrWidget, StrMyRepo}
    IN {NoFields}
       \cup {OneField(a, v) : a \in {"repo_name_input", "other_input"}, v \in vals}
       \cup {TwoFields("repo_name_input", v, "other_input", w) : v \in vals, w \in vals}

ValuesInputs ==
    {[kind |-> "values", values |-> Values(g, n, d, a)] :
        g \in SUBSET AllGroups, n \in FieldOptions, d \in FieldOptions,
        a \in {NoFields, OneField("ai_prompt_input", StrItsMine)}}

\* A field of a given kind under one action id.
FieldOfKind(a, v, k) == [x \in {a} |-> [type |-> k, value |-> v]]

\* view.state.values with the groups ai-prompt and extra next to the name
\* and the description.
ValuesWith(groups, nameFields, descFields, otherFields) ==
    [g \in groups |->
        IF g = "repo-name" THEN nameFields
        ELSE IF g = "repo-description" THEN descFields
        ELSE otherFields]

\* Submissions as the form of the service sends them: type view_submission,
\* the name and the description each under the action id of the form.
PlainSubmissions ==
    {Submission("view_submission", c,
                ValuesWith(NameAndDesc, OneField("repo_name_input", n),
                           OneField("repo_desc_input", d), NoFields)) :
        c \in {NewRepoModalCallbackID, "other_modal"},
        n \in {<<>>, StrWidget, StrMyRepo},
        d \in {<<>>, StrItsMine}}

\* Submissions of either type, with the name under either action id and of
\* either kind, with or without a description, and with or without the
\* groups ai-prompt and extra.
SubmissionVariants ==
    {Submission(t, c, ValuesWith(NameAndDesc \cup g, n, d,
                                 OneField("ai_prompt_input", StrItsMine))) :
        t \in {"view_submission", "block_actions"},
        c \in {NewRepoModalCallbackID, "other_modal"},
        g \in {{}, {"ai-prompt"}, {"ai-prompt", "extra"}},
        n \in {NoFields,
               OneField("repo_name_input", StrWidget),
               OneField("other_input", StrWidget),
               FieldOfKind("repo_name_input", StrWidget, "static_select"),
               OneField("repo_name_input", StrMyRepo)},
        d \in {NoFields, OneField("repo_desc_input", StrItsMine)}}

\* The submission Slack sends for a modal the service opened: the callback
\* id of the modal and, for every input block, the group of its block id
\* with one field under its action id.  The field holds what the user typed,
\* or the initial value of the input when the user left it alone.
SubmitForm(view, typed) ==
    LET at(b) == CHOOSE i \in 1..Len(view.blocks) : view.blocks[i].block_id = b
        ids == {view.blocks[i].block_id : i \in 1..Len(view.blocks)}
    IN Submission("view_submission", view.callback_id,
                  [b \in ids |->
                      OneField(view.blocks[at(b)].action_id,
                               IF b \in DOMAIN typed THEN typed[b]
                               ELSE view.blocks[at(b)].initial_value)])

\* What a user types into the form: nothing, a name, a description, or
\* both.
TypedOptions ==
    LET names == {StrWidget, StrMyRepo}
    IN {[b \in {} |-> <<>>]}
       \cup {[b \in {"repo-name"} |-> n] : n \in names}
       \cup {[b \in {"repo-description"} |-> StrItsMine]}
       \cup {[b \in NameAndDesc |->
                 IF b = "repo-name" THEN n ELSE StrItsMine] : n \in names}

\* The text of a /new-repo command and what the user types into the form
\* opened for it.
FormInputs ==
    {[kind |-> "form", text |-> t, typed |-> y] :
        t \in {<<>>, <<" ">>, StrWidget, StrMyRepo}, y \in TypedOptions}

SubmissionPairInputs ==
    {[kind |-> "submissions", p |-> p, q |-> q] :
        p \in PlainSubmissions, q \in SubmissionVariants}

\* The spellings of a lower-case word with any of its letters in upper
\* case.
CaseVariants(word) ==
    {[i \in 1..Len(word) |->
         IF i \in up THEN UpperSeq[IndexIn(LowerSeq, word[i])] ELSE word[i]] :
       up \in SUBSET (1..Len(word))}

\* Level strings: the level names in every spelling, spellings with the
\* dotted capital I, near misses, and short strings.
LevelInputs ==
    {[kind |-> "level", s |-> s] :
        s \in UNION {CaseVariants(w) :
                       w \in {StrDebug, StrInfo, StrWarn, StrWarning, StrError}}
              \cup {<<"U+0130","n","f","o">>,
                    <<"W","A","R","N","U+0130","N","G">>,
                    <<"i","n","v","a","l","i","d">>,
                    <<" ","d","e","b","u","g">>,
                    <<"d","e","b","u","g"," ">>,
                    <<"w","a","r","n","i","n">>,
                    <<"w","a","r","n","s">>,
                    <<"e","r","r">>,
                    <<"f","a","t","a","l">>,
                    <<"0">>, <<"3">>}
              \cup Strings({"a", "E", " ", "0"}, MaxStrLen)}

\* A call of one of the four logging methods on the Logger created for a
\* level string.
LogInputs ==
    {[kind |-> "log", s |-> s, call |-> c, msg |-> m] :
        s \in {StrDebug, StrInfo, StrWarn, StrWarning, StrError,
               <<"D","E","B","U","G">>, <<"E","r","r","o","r">>,
               <<"i","n","v","a","l","i","d">>, <<>>},
        c \in {"Debug", "Info", "Warn", "Error"},
        m \in {"debug message", "info message", "warn message", "error message"}}

\* The configuration of a process started with the given owner and
\* working directory.
ConfigOf(owner, dir) ==
    loadConfig([SLACK_BOT_TOKEN        |-> StrToken,
                SLACK_CHANNEL_NEW_REPO |-> <<>>,
                GITHUB_ORG             |-> owner,
                WORKING_DIR            |-> dir,
                LOG_LEVEL              |-> <<>>]).config

InitFn ==
    /\ env \in {e \in Environments : loadConfig(e).ok /\ e.LOG_LEVEL = <<>>}
    /\ pc = "Startup"
    /\ cancelled = FALSE
    /\ ch = <<>>
    /\ viewSubmissionCh = <<>>
    /\ published = 0
    /\ cur = NoMessage
    /\ trace = <<>>
    /\ poppitList = <<>>
    /\ slackLinerList = <<>>
    /\ modalCalls = <<>>
    /\ fnOp = "none"
    /\ fnArg \in NameInputs \cup DescInputs \cup BuildInputs \cup ValuesInputs
                 \cup LevelInputs \cup LogInputs \cup SubmissionPairInputs
                 \cup FormInputs
    /\ fnRes = <<>>

ApplyIsValidRepoName ==
    /\ fnOp = "none"
    /\ fnArg.kind = "name"
    /\ fnOp' = "isValidRepoName"
    /\ fnRes' = isValidRepoName(fnArg.s)
    /\ UNCHANGED <<mainVars, fnArg>>

ApplyEscapeDesc ==
    /\ fnOp = "none"
    /\ fnArg.kind = "desc"
    /\ fnOp' = "EscapeDesc"
    /\ fnRes' = EscapeDesc(fnArg.s)
    /\ UNCHANGED <<mainVars, fnArg>>

ApplyPoppitCommand ==
    /\ fnOp = "none"
    /\ fnArg.kind = "build"
    /\ fnOp' = "PoppitCommand"
    /\ fnRes' = PoppitCommand(ConfigOf(fnArg.owner, fnArg.dir),
                              fnArg.name, fnArg.desc)
    /\ UNCHANGED <<mainVars, fnArg>>

ApplyExtractViewValues ==
    /\ fnOp = "none"
    /\ fnArg.kind = "values"
    /\ fnOp' = "extractViewValues"
    /\ fnRes' \in extractViewValues(fnArg.values)
    /\ UNCHANGED <<mainVars, fnArg>>

\* extractViewValues called a second time, in the same process, on the
\* submission it was called on: each call ranges over the maps anew.
ApplyExtractViewValuesAgain ==
    /\ fnOp = "extractViewValues"
    /\ fnOp' = "extractViewValuesAgain"
    /\ \E second \in extractViewValues(fnArg.values) :
          fnRes' = [first |-> fnRes, second |-> second]
    /\ UNCHANGED <<mainVars, fnArg>>

ApplyNewLogger ==
    /\ fnOp = "none"
    /\ fnArg.kind = "level"
    /\ fnOp' = "NewLogger"
    /\ fnRes' = NewLogger(fnArg.s)
    /\ UNCHANGED <<mainVars, fnArg>>

\* One of Debug, Info, Warn, Error called on NewLogger(fnArg.s).
ApplyLog ==
    /\ fnOp = "none"
    /\ fnArg.kind = "log"
    /\ fnOp' = "Log"
    /\ fnRes' = LET l == NewLogger(fnArg.s) IN
                CASE fnArg.call = "Debug" -> Debug(l, fnArg.msg)
                  [] fnArg.call = "Info" -> Info(l, fnArg.msg)
                  [] fnArg.call = "Warn" -> Warn(l, fnArg.msg)
                  [] fnArg.call = "Error" -> Error(l, fnArg.msg)
    /\ UNCHANGED <<mainVars, fnArg>>

\* handleViewSubmission on two submissions, with the same outcomes of the
\* pushes.
ApplyHandleViewSubmission ==
    /\ fnOp = "none"
    /\ fnArg.kind = "submissions"
    /\ fnOp' = "handleViewSubmission"
    /\ \E v \in extractViewValues(fnArg.p.values) :
       \E w \in extractViewValues(fnArg.q.values) :
       \E poppitOk, slackOk \in BOOLEAN :
          fnRes' = [v      |-> v,
                    w      |-> w,
                    first  |-> handleViewSubmission(logger, config, fnArg.p, v,
                                                    poppitOk, slackOk),
                    second |-> handleViewSubmission(logger, config, fnArg.q, w,
                                                    poppitOk, slackOk)]
    /\ UNCHANGED <<mainVars, fnArg>>

ApplyCreateNewRepoModal ==
    /\ fnOp = "none"
    /\ fnArg.kind = "form"
    /\ fnOp' = "createNewRepoModal"
    /\ fnRes' = createNewRepoModal(fnArg.text)
    /\ UNCHANGED <<mainVars, fnArg>>

\* handleViewSubmission on the submission of the modal built.
ApplySubmitForm ==
    /\ fnOp = "createNewRepoModal"
    /\ fnOp' = "submitForm"
    /\ LET submission == SubmitForm(fnRes, fnArg.typed) IN
       \E values \in extractViewValues(submission.values) :
       \E poppitOk, slackOk \in BOOLEAN :
          fnRes' = [view       |-> fnRes,
                    submission |-> submission,
                    effects    |-> handleViewSubmission(logger, config, submission,
                                                        values, poppitOk, slackOk)]
    /\ UNCHANGED <<mainVars, fnArg>>

NextFn ==
    \/ ApplyIsValidRepoName
    \/ ApplyEscapeDesc
    \/ ApplyPoppitCommand
    \/ ApplyExtractViewValues
    \/ ApplyExtractViewValuesAgain
    \/ ApplyNewLogger
    \/ ApplyLog
    \/ ApplyHandleViewSubmission
    \/ ApplyCreateNewRepoModal
    \/ ApplySubmitForm

SpecFn == InitFn /\ [][NextFn]_vars

\* ------------------------------------------------------------------------
\* Vocabulary of the properties
\* ------------------------------------------------------------------------

\* The RPush calls of a trace, in order, and those to one list.
Pushes(t) == SelectSeq(t, LAMBDA e : e.ev = "rpush")

PushesTo(t, list) == SelectSeq(t, LAMBDA e : e.ev = "rpush" /\ e.list = list)

\* The log entries of a trace, and those of one level.
Logs(t) == SelectSeq(t, LAMBDA e : e.ev = "log")

LogsAt(t, level) == SelectSeq(t, LAMBDA e : e.ev = "log" /\ e.level = level)

\* The calls of the flattener of a trace.
Extracts(t) == SelectSeq(t, LAMBDA e : e.ev = "extract")

\* The flattened repo-name the handler worked with, if any.
HasFlatName(t) ==
    /\ Extracts(t) # <<>>
    /\ "repo-name" \in DOMAIN Extracts(t)[1].values

FlatName(t) == Extracts(t)[1].values["repo-name"]

\* The characters a repository name may contain, [A-Za-z0-9._-].
RepoNameChars ==
    {LowerSeq[i] : i \in 1..Len(LowerSeq)}
    \cup {UpperSeq[i] : i \in 1..Len(UpperSeq)}
    \cup {DigitSeq[i] : i \in 1..Len(DigitSeq)}
    \cup {".", "_", "-"}

\* A name that the contract of the validator lets pass.
NameOK(s) ==
    /\ s # <<>>
    /\ Len(s) <= 100
    /\ \A i \in 1..Len(s) : s[i] \in RepoNameChars

\* The step in which handleViewSubmission runs on the message taken.
SubmissionHandled == pc = "RoutingSubmission" /\ pc' = "Idle"

\* The step in which handleMessage runs on the message taken.
CommandHandled == pc = "RoutingCommand" /\ pc' = "Idle"

\* The payload being handled decodes and carries the service's callback id.
OurSubmission ==
    /\ cur.stream = "submission"
    /\ cur.msg.Payload.decodes
    /\ cur.msg.Payload.callback_id = "create_github_repo_modal"

QueuesUnchanged ==
    /\ poppitList' = poppitList
    /\ slackLinerList' = slackLinerList

\* ------------------------------------------------------------------------
\* Properties of the submission handler
\* ------------------------------------------------------------------------

\* C1: handling a submission that decodes, carries the service's callback
\* id and flattens to a valid non-empty repo-name, with every push
\* succeeding, makes exactly two pushes: first one task to the task queue,
\* then one notification to the notification queue; each queue grows by
\* exactly that element.
C1_TaskThenNotification ==
    [][(/\ SubmissionHandled
        /\ OurSubmission
        /\ HasFlatName(trace')
        /\ NameOK(FlatName(trace'))
        /\ \A i \in 1..Len(Pushes(trace')) : Pushes(trace')[i].ok)
       => (/\ Len(Pushes(trace')) = 2
           /\ Pushes(trace')[1].list = "poppit"
           /\ Pushes(trace')[2].list = "slackliner"
           /\ poppitList' = Append(poppitList, Pushes(trace')[1].payload)
           /\ slackLinerList' =
                 Append(slackLinerList, Pushes(trace')[2].payload))]_vars

C1_Witness ==
    /\ pc = "Idle"
    /\ OurSubmission
    /\ HasFlatName(trace)
    /\ NameOK(FlatName(trace))
    /\ Len(Pushes(trace)) = 2
    /\ Pushes(trace)[1].ok
    /\ Pushes(trace)[2].ok
    /\ Len(poppitList) = 1
    /\ Len(slackLinerList) = 1

\* C2: handling a submission with the service's callback id whose flattened
\* repo-name is non-empty but not a valid name pushes nothing to either
\* queue and logs exactly one entry at error level.
C2_InvalidNameRejected ==
    [][(/\ SubmissionHandled
        /\ OurSubmission
        /\ HasFlatName(trace')
        /\ FlatName(trace') # <<>>
        /\ ~NameOK(FlatName(trace')))
       => (/\ Pushes(trace') = <<>>
           /\ QueuesUnchanged
           /\ Len(LogsAt(trace', LogLevelError)) = 1)]_vars

C2_Witness ==
    /\ pc = "Idle"
    /\ OurSubmission
    /\ HasFlatName(trace)
    /\ FlatName(trace) = <<"m","y"," ","r","e","p","o">>
    /\ Len(LogsAt(trace, LogLevelError)) = 1
    /\ poppitList = <<>>
    /\ slackLinerList = <<>>

\* The repo-name group of the payload being handled is absent or has no
\* field.
NoNameField ==
    \/ "repo-name" \notin DOMAIN cur.msg.Payload.values
    \/ DOMAIN cur.msg.Payload.values["repo-name"] = {}

\* C3: handling a submission with the service's callback id whose repo-name
\* group is absent, has no field, or flattens to the empty string logs an
\* error and pushes nothing to either queue.
C3_MissingNameRejected ==
    [][(/\ SubmissionHandled
        /\ OurSubmission
        /\ \/ NoNameField
           \/ (HasFlatName(trace') /\ FlatName(trace') = <<>>))
       => (/\ Pushes(trace') = <<>>
           /\ QueuesUnchanged
           /\ Len(LogsAt(trace', LogLevelError)) = 1)]_vars

C3_Witness ==
    /\ pc = "Idle"
    /\ OurSubmission
    /\ NoNameField
    /\ Len(LogsAt(trace, LogLevelError)) = 1
    /\ poppitList = <<>>
    /\ slackLinerList = <<>>

\* C4: handling a submission that decodes with a callback id other than the
\* service's does no processing: the flattener is not called, nothing is
\* pushed to either queue, no modal is opened, and every log entry is of
\* debug level.
C4_UnknownCallbackIgnored ==
    [][(/\ SubmissionHandled
        /\ cur.msg.Payload.decodes
        /\ cur.msg.Payload.callback_id # "create_github_repo_modal")
       => (/\ Extracts(trace') = <<>>
           /\ Pushes(trace') = <<>>
           /\ QueuesUnchanged
           /\ modalCalls' = modalCalls
           /\ \A i \in 1..Len(trace') :
                 trace'[i].ev = "log" /\ trace'[i].level = LogLevelDebug)]_vars

C4_Witness ==
    /\ pc = "Idle"
    /\ cur.stream = "submission"
    /\ cur.msg.Payload.decodes
    /\ cur.msg.Payload.callback_id = "other_modal"
    /\ Len(trace) = 2
    /\ poppitList = <<>>
    /\ slackLinerList = <<>>

\* C5: isValidRepoName passes a string exactly when it is non-empty, has at
\* most 100 characters and consists of characters of [A-Za-z0-9._-].
C5_ValidatorContract ==
    fnOp = "isValidRepoName" => fnRes = NameOK(fnArg.s)

\* The name of 100 characters "a" passes.
C5_Witness ==
    /\ fnOp = "isValidRepoName"
    /\ fnArg.s = [i \in 1..100 |-> "a"]
    /\ fnRes = TRUE

IsPrefix(s, t) == Len(s) <= Len(t) /\ SubSeq(t, 1, Len(s)) = s

\* The push of the task was attempted and failed.
TaskPushFailed(t) ==
    /\ PushesTo(t, "poppit") # <<>>
    /\ ~PushesTo(t, "poppit")[1].ok

\* The push of the task succeeded and the push of the notification failed.
OnlyNotificationFailed(t) ==
    /\ PushesTo(t, "poppit") # <<>>
    /\ PushesTo(t, "poppit")[1].ok
    /\ PushesTo(t, "slackliner") # <<>>
    /\ ~PushesTo(t, "slackliner")[1].ok

\* C6: handling a submission attempts at most one push of a task and at
\* most one push of a notification and puts nothing back on a stream; when
\* the push of the task fails, one error is logged, no push of a
\* notification is attempted and both queues are as before.
C6_TaskPushFailure ==
    [][SubmissionHandled
       => (/\ Len(PushesTo(trace', "poppit")) <= 1
           /\ Len(PushesTo(trace', "slackliner")) <= 1
           /\ ch' = ch
           /\ viewSubmissionCh' = viewSubmissionCh
           /\ TaskPushFailed(trace')
              => (/\ Len(LogsAt(trace', LogLevelError)) = 1
                  /\ PushesTo(trace', "slackliner") = <<>>
                  /\ QueuesUnchanged))]_vars

C6_Witness ==
    /\ pc = "Idle"
    /\ OurSubmission
    /\ TaskPushFailed(trace)
    /\ Len(LogsAt(trace, LogLevelError)) = 1
    /\ poppitList = <<>>
    /\ slackLinerList = <<>>

\* C7: no step removes or alters an element of the task queue; when the
\* push of the task succeeds and the push of the notification fails, the
\* task is on the task queue, the notification queue is as before, the
\* failure is logged as one error, and the one push of the notification is
\* not repeated.
C7_NoRollback ==
    [][/\ IsPrefix(poppitList, poppitList')
       /\ (SubmissionHandled /\ OnlyNotificationFailed(trace'))
          => (/\ poppitList' =
                    Append(poppitList, PushesTo(trace', "poppit")[1].payload)
              /\ slackLinerList' = slackLinerList
              /\ Len(PushesTo(trace', "slackliner")) = 1
              /\ Len(LogsAt(trace', LogLevelError)) = 1
              /\ ch' = ch
              /\ viewSubmissionCh' = viewSubmissionCh)]_vars

C7_Witness ==
    /\ pc = "Idle"
    /\ OurSubmission
    /\ OnlyNotificationFailed(trace)
    /\ Len(poppitList) = 1
    /\ poppitList[1] = PushesTo(trace, "poppit")[1].payload
    /\ slackLinerList = <<>>

\* ------------------------------------------------------------------------
\* Properties of the builder and of the escaper
\* ------------------------------------------------------------------------

\* The quotes of s before position i, and where the character at position
\* i of s lands once every quote before it takes four places.
QuotesBefore(s, i) == Cardinality({j \in 1..(i - 1) : s[j] = "'"})

Landing(s, i) == i + 3 * QuotesBefore(s, i)

\* out is s with each quote replaced by the four characters '\'' and every
\* other character kept, in order.
IsQuoteEscaped(out, s) ==
    /\ Len(out) = Len(s) + 3 * QuotesBefore(s, Len(s) + 1)
    /\ \A i \in 1..Len(s) :
          IF s[i] = "'"
          THEN SubSeq(out, Landing(s, i), Landing(s, i) + 3)
                  = <<"'", "\\", "'", "'">>
          ELSE out[Landing(s, i)] = s[i]

ExpectCreate ==
    <<"g","h"," ","r","e","p","o"," ","c","r","e","a","t","e"," ">>

ExpectFlags ==
    <<" ","-","-","p","u","b","l","i","c"," ","-","-","a","d","d","-",
      "r","e","a","d","m","e"," ","-","-","g","i","t","i","g","n","o","r",
      "e"," ","G","o">>

ExpectDescription ==
    <<" ","-","-","d","e","s","c","r","i","p","t","i","o","n"," ","'">>

ExpectClone == <<"g","h"," ","r","e","p","o"," ","c","l","o","n","e"," ">>

ExpectInit == <<"g","h"," ","v","i","b","e"," ","i","n","i","t"," ">>

\* C8: the task built for an owner, a valid name, a description and a
\* working directory has exactly three commands, create, clone and init in
\* this order; with an empty description the create command is exactly
\* "gh repo create <owner>/<name> --public --add-readme --gitignore Go", and
\* otherwise it is that followed by " --description '", the escaped
\* description and a closing quote.
C8_CommandList ==
    fnOp = "PoppitCommand" =>
        LET full == fnArg.owner \o <<"/">> \o fnArg.name
            base == ExpectCreate \o full \o ExpectFlags
            create == fnRes.commands[1]
            head == base \o ExpectDescription
        IN /\ Len(fnRes.commands) = 3
           /\ fnRes.commands[2] = ExpectClone \o full
           /\ fnRes.commands[3] = ExpectInit \o full
           /\ fnArg.desc = <<>> => create = base
           /\ fnArg.desc # <<>> =>
                 /\ Len(create) > Len(head)
                 /\ SubSeq(create, 1, Len(head)) = head
                 /\ create[Len(create)] = "'"
                 /\ IsQuoteEscaped(SubSeq(create, Len(head) + 1,
                                          Len(create) - 1), fnArg.desc)

\* A task built with a description that holds a quote.
C8_Witness ==
    /\ fnOp = "PoppitCommand"
    /\ fnArg.owner = <<"a","c","m","e">>
    /\ fnArg.name = <<"w","i","d","g","e","t">>
    /\ fnArg.desc = <<"I","t","'","s"," ","m","i","n","e">>
    /\ Len(fnRes.commands) = 3

\* The working directory the process is configured with: WORKING_DIR, or
\* /tmp when it is not set.
ConfiguredDir ==
    IF env.WORKING_DIR = <<>> THEN <<"/","t","m","p">> ELSE env.WORKING_DIR

\* The repo-name values that submissions carry.
SubmittedNames ==
    UNION {{p.values["repo-name"][a].value : a \in DOMAIN p.values["repo-name"]} :
              p \in {q \in SubmissionPayloads : "repo-name" \in DOMAIN q.values}}

\* C9: every task on the task queue has the repo <owner>/<name> for the
\* configured owner and a submitted name, the branch refs/heads/main, the
\* type slash-vibe-new-repo and the configured working directory; the task
\* pushed for the submission just handled names the repo-name of that
\* submission.
C9_TaskFields ==
    /\ \A i \in 1..Len(poppitList) :
          /\ \E n \in SubmittedNames :
                poppitList[i].repo = env.GITHUB_ORG \o <<"/">> \o n
          /\ poppitList[i].branch = "refs/heads/main"
          /\ poppitList[i].type = "slash-vibe-new-repo"
          /\ poppitList[i].dir = ConfiguredDir
    /\ (/\ pc = "Idle"
        /\ cur.stream = "submission"
        /\ PushesTo(trace, "poppit") # <<>>
        /\ PushesTo(trace, "poppit")[1].ok)
       => (/\ poppitList # <<>>
           /\ poppitList[Len(poppitList)].repo =
                 env.GITHUB_ORG \o <<"/">> \o FlatName(trace))

C9_Witness ==
    /\ Len(poppitList) = 1
    /\ poppitList[1].repo = <<"a","c","m","e","/","w","i","d","g","e","t">>
    /\ poppitList[1].dir = <<"/","w">>
    /\ pc = "Idle"
    /\ cur.stream = "submission"

\* C10: the escaped description is the description with every quote
\* replaced by the four characters '\'' and every other character
\* unchanged and in place.
C10_EscaperReplacesQuotes ==
    fnOp = "EscapeDesc" => IsQuoteEscaped(fnRes, fnArg.s)

\* "It's mine" becomes "It'\''s mine".
C10_Witness ==
    /\ fnOp = "EscapeDesc"
    /\ fnArg.s = <<"I","t","'","s"," ","m","i","n","e">>
    /\ fnRes = <<"I","t","'","\\","'","'","s"," ","m","i","n","e">>

\* ------------------------------------------------------------------------
\* The words of a shell command text, by the quoting rules of the POSIX
\* shell: inside single quotes every character stands for itself up to the
\* next single quote; outside quotes a backslash makes the next character
\* stand for itself (and removes a newline), a blank ends the word, and a
\* character with a meaning of its own (an operator, a double quote, a
\* dollar sign, a backquote) makes the text something else than a list of
\* plain words.
\* ------------------------------------------------------------------------

ShellBlanks == {" ", "\n"}

ShellSpecials == {";", "|", "<", ">", "$", "\"", "U+0060", "#", "*", "{", "["}

\* The reading of text from position i on.  mode is "plain" or "quoted",
\* word the word read so far and inWord whether one has begun, words
\* those completed.  The result says whether the text is a list of plain
\* words, and which.
RECURSIVE ShellRead(_, _, _, _, _, _)
ShellRead(text, i, mode, word, inWord, words) ==
    IF i > Len(text)
    THEN IF mode = "quoted" THEN [ok |-> FALSE, words |-> words]
         ELSE [ok |-> TRUE,
               words |-> IF inWord THEN Append(words, word) ELSE words]
    ELSE
    LET c == text[i] IN
    IF mode = "quoted"
    THEN IF c = "'"
         THEN ShellRead(text, i + 1, "plain", word, TRUE, words)
         ELSE ShellRead(text, i + 1, "quoted", Append(word, c), TRUE, words)
    ELSE IF c = "'"
    THEN ShellRead(text, i + 1, "quoted", word, TRUE, words)
    ELSE IF c = "\\"
    THEN IF i = Len(text) THEN [ok |-> FALSE, words |-> words]
         ELSE IF text[i + 1] = "\n"
         THEN ShellRead(text, i + 2, "plain", word, inWord, words)
         ELSE ShellRead(text, i + 2, "plain", Append(word, text[i + 1]),
                        TRUE, words)
    ELSE IF c \in ShellBlanks
    THEN ShellRead(text, i + 1, "plain", <<>>, FALSE,
                   IF inWord THEN Append(words, word) ELSE words)
    ELSE IF c \in ShellSpecials
    THEN [ok |-> FALSE, words |-> words]
    ELSE ShellRead(text, i + 1, "plain", Append(word, c), TRUE, words)

ShellWords(text) == ShellRead(text, 1, "plain", <<>>, FALSE, <<>>)

\* C11: the escaped description between single quotes reads as exactly one
\* shell word, and the word is the description.
C11_EscaperRoundTrip ==
    fnOp = "EscapeDesc" =>
        ShellWords(<<"'">> \o fnRes \o <<"'">>)
            = [ok |-> TRUE, words |-> <<fnArg.s>>]

\* A description of a quote and a dollar sign has been escaped and reads
\* back as one word.
C11_Witness ==
    /\ fnOp = "EscapeDesc"
    /\ fnArg.s = <<"'", "$">>
    /\ ShellWords(<<"'">> \o fnRes \o <<"'">>).words = <<(<<"'", "$">>)>>

\* ------------------------------------------------------------------------
\* Properties of the notification
\* ------------------------------------------------------------------------

\* s occurs in t.
Contains(t, s) ==
    \E i \in 1..(Len(t) - Len(s) + 1) : SubSeq(t, i, i + Len(s) - 1) = s

\* t ends with s.
IsSuffix(s, t) ==
    Len(s) <= Len(t) /\ SubSeq(t, Len(t) - Len(s) + 1, Len(t)) = s

ConfiguredChannel ==
    IF env.SLACK_CHANNEL_NEW_REPO = <<>>
    THEN <<"#","n","e","w","-","r","e","p","o">>
    ELSE env.SLACK_CHANNEL_NEW_REPO

ExpectRepoURL == <<"h","t","t","p","s",":","/","/","g","i","t","h","u","b",".","c","o","m","/">>

ExpectDescriptionLabel == <<"\n","*","D","e","s","c","r","i","p","t","i","o","n",":","*"," ">>

\* The flattened repo-description the handler worked with: empty when the
\* submission has none.
FlatDesc(t) ==
    IF "repo-description" \in DOMAIN Extracts(t)[1].values
    THEN Extracts(t)[1].values["repo-description"]
    ELSE <<>>

\* C12: every notification on the notification queue has exactly the
\* fields channel, text and ttl, the configured channel, a text containing
\* https://github.com/<owner>/<name> for the configured owner and a
\* submitted name, and the ttl 604800; the notification pushed for the
\* submission just handled links the repo of the task pushed for it, and
\* its text ends with a description line exactly when the flattened
\* description is not empty.
C12_NotificationFields ==
    /\ \A i \in 1..Len(slackLinerList) :
          /\ DOMAIN slackLinerList[i] = {"channel", "text", "ttl"}
          /\ slackLinerList[i].channel = ConfiguredChannel
          /\ slackLinerList[i].ttl = 604800
          /\ \E n \in SubmittedNames :
                Contains(slackLinerList[i].text,
                         ExpectRepoURL \o env.GITHUB_ORG \o <<"/">> \o n)
    /\ (/\ pc = "Idle"
        /\ cur.stream = "submission"
        /\ PushesTo(trace, "slackliner") # <<>>
        /\ PushesTo(trace, "slackliner")[1].ok)
       => LET text == slackLinerList[Len(slackLinerList)].text
              task == PushesTo(trace, "poppit")[1].payload
              desc == FlatDesc(trace)
          IN /\ PushesTo(trace, "slackliner")[1].payload
                   = slackLinerList[Len(slackLinerList)]
             /\ task.repo = env.GITHUB_ORG \o <<"/">> \o FlatName(trace)
             /\ Contains(text, ExpectRepoURL \o task.repo)
             /\ Contains(text, ExpectDescriptionLabel) <=> desc # <<>>
             /\ desc # <<>> => IsSuffix(ExpectDescriptionLabel \o desc, text)

\* Two notifications are on the queue, one with a description line and one
\* without, sent to a channel set in the environment.
C12_Witness ==
    /\ Len(slackLinerList) = 2
    /\ env.SLACK_CHANNEL_NEW_REPO # <<>>
    /\ \E i, j \in 1..2 :
          /\ Contains(slackLinerList[i].text, ExpectDescriptionLabel)
          /\ ~Contains(slackLinerList[j].text, ExpectDescriptionLabel)
          /\ slackLinerList[j].ttl = 604800

\* ------------------------------------------------------------------------
\* Properties of the flattener
\* ------------------------------------------------------------------------

\* The values of the fields of group g of the submission values v.
FieldValues(v, g) == {v[g][a].value : a \in DOMAIN v[g]}

\* C13: the map extractViewValues returns has exactly the groups with at
\* least one field as its keys, maps each of them to the value of one of
\* the group's own fields, and maps a group with exactly one field to that
\* field's value.
C13_FlattenerOutput ==
    fnOp = "extractViewValues" =>
        LET v == fnArg.values IN
        /\ DOMAIN fnRes = {g \in DOMAIN v : DOMAIN v[g] # {}}
        /\ \A g \in DOMAIN fnRes : fnRes[g] \in FieldValues(v, g)
        /\ \A g \in DOMAIN v :
              Cardinality(DOMAIN v[g]) = 1 => FieldValues(v, g) = {fnRes[g]}

\* A submission with a group of two fields of different values, a group of
\* one field and a group of no field has been flattened.
C13_Witness ==
    /\ fnOp = "extractViewValues"
    /\ DOMAIN fnArg.values = {"repo-name", "repo-description", "ai-prompt"}
    /\ Cardinality(DOMAIN fnArg.values["repo-name"]) = 2
    /\ Cardinality(FieldValues(fnArg.values, "repo-name")) = 2
    /\ Cardinality(DOMAIN fnArg.values["repo-description"]) = 1
    /\ DOMAIN fnArg.values["ai-prompt"] = {}
    /\ DOMAIN fnRes = {"repo-name", "repo-description"}

\* C14: flattening the same submission twice in the same process yields
\* the same map, also when a group has more than one field.
C14_FlattenerDeterministic ==
    fnOp = "extractViewValuesAgain" => fnRes.first = fnRes.second

\* ------------------------------------------------------------------------
\* Properties of the dispatch loop
\* ------------------------------------------------------------------------

\* A handler is running on the message taken.
Handling == pc \in {"RoutingCommand", "RoutingSubmission"}

\* The step takes a message from the command stream.
TakesCommand == Len(ch') < Len(ch)

\* The step takes a message from the submission stream.
TakesSubmission == Len(viewSubmissionCh') < Len(viewSubmissionCh)

\* C15: the loop handles at most one message at a time: it takes a message
\* from either stream only while no handler is running, a step takes at
\* most one message, the message taken (unless nil) is the one being
\* handled from then on, and while a handler runs the message being
\* handled does not change until the handler returns to the wait.
C15_SingleThreaded ==
    [][/\ (TakesCommand \/ TakesSubmission) => ~Handling
       /\ ~(TakesCommand /\ TakesSubmission)
       /\ (TakesCommand /\ ~Head(ch).isNil)
             => Handling' /\ cur' = [stream |-> "command", msg |-> Head(ch)]
       /\ (TakesSubmission /\ ~Head(viewSubmissionCh).isNil)
             => Handling' /\ cur' = [stream |-> "submission",
                                     msg |-> Head(viewSubmissionCh)]
       /\ Handling => cur' = cur /\ pc' \in {pc, "Idle"}
       /\ (Handling' /\ ~Handling) => (TakesCommand \/ TakesSubmission)]_vars

\* A handler is running on a command while a submission is pending.
C15_Witness ==
    /\ pc = "RoutingCommand"
    /\ cur.stream = "command"
    /\ viewSubmissionCh # <<>>
    /\ ~Head(viewSubmissionCh).isNil

\* C16: once the context is cancelled the loop starts no handler any more:
\* no step taken after the cancellation leads from the wait into the
\* handling of a message.
C16_NoHandlingAfterCancel ==
    [][cancelled => ~(~Handling /\ Handling')]_vars

\* C17: once the context is cancelled while the loop runs, the loop reaches
\* Shutdown, also when messages never stop arriving on both streams, and
\* Shutdown is never left.
C17_EventuallyShutdown ==
    /\ (cancelled /\ Running) ~> (pc = "Shutdown")
    /\ [][pc = "Shutdown" => pc' = "Shutdown"]_vars

\* The loop has shut down with messages pending on both streams.
C17_Witness ==
    /\ pc = "Shutdown"
    /\ cancelled
    /\ ch # <<>>
    /\ viewSubmissionCh # <<>>

\* C18: the loop enters Shutdown only from the Idle wait and only with the
\* context cancelled; a handler that runs when the context is cancelled
\* still returns to the wait, so no step leads from a running handler to
\* Shutdown.
C18_ShutdownOnlyFromIdle ==
    [][/\ (pc' = "Shutdown" /\ pc # "Shutdown") => (pc = "Idle" /\ cancelled)
       /\ (Handling /\ pc' # pc) => pc' = "Idle"]_vars

\* The loop has shut down after the handler of a submission has returned
\* with its notification pushed.
C18_Witness ==
    /\ pc = "Shutdown"
    /\ cur.stream = "submission"
    /\ PushesTo(trace, "slackliner") # <<>>
    /\ slackLinerList # <<>>

\* What a step may do to a stream q whose next value is r, and to the
\* message being handled: deliver one message behind those pending, or
\* take the message delivered first, while no handler runs, and start
\* handling it unless it is nil.
InDeliveryOrder(q, r, stream) ==
    \/ r = q
    \/ Len(r) = Len(q) + 1 /\ SubSeq(r, 1, Len(q)) = q
    \/ /\ q # <<>>
       /\ r = Tail(q)
       /\ ~Handling
       /\ IF Head(q).isNil
          THEN ~Handling'
          ELSE Handling' /\ cur' = [stream |-> stream, msg |-> Head(q)]

\* C19: within a stream the messages are handled in the order of their
\* delivery: a message is delivered behind those pending, the loop always
\* takes the message of the stream that was delivered first, and it takes
\* it only after the handler of the message taken before has returned.
C19_DeliveryOrder ==
    [][/\ InDeliveryOrder(ch, ch', "command")
       /\ InDeliveryOrder(viewSubmissionCh, viewSubmissionCh', "submission")]_vars

\* The submission delivered first is being handled while a different
\* submission, delivered after it, is pending.
C19_Witness ==
    /\ pc = "RoutingSubmission"
    /\ viewSubmissionCh # <<>>
    /\ ~Head(viewSubmissionCh).isNil
    /\ Head(viewSubmissionCh) # cur.msg

\* A command and a submission, neither nil, are pending while the loop
\* waits.
BothPending ==
    /\ pc = "Idle"
    /\ ch # <<>>
    /\ viewSubmissionCh # <<>>
    /\ ~Head(ch).isNil
    /\ ~Head(viewSubmissionCh).isNil

\* C20: whenever a command and a submission are both pending at the wait,
\* the loop can go on by handling the command with the submission still
\* pending, and it can go on by handling the submission with the command
\* still pending.
C20_EitherStreamFirst ==
    BothPending =>
        /\ ENABLED (/\ LoopRecvCommand
                    /\ pc' = "RoutingCommand"
                    /\ cur'.msg = Head(ch)
                    /\ viewSubmissionCh' = viewSubmissionCh)
        /\ ENABLED (/\ LoopRecvSubmission
                    /\ pc' = "RoutingSubmission"
                    /\ cur'.msg = Head(viewSubmissionCh)
                    /\ ch' = ch)

\* A command and a submission are pending at the wait, the context not
\* cancelled.
C20_Witness ==
    /\ BothPending
    /\ ~cancelled

\* ------------------------------------------------------------------------
\* Properties of the command handler
\* ------------------------------------------------------------------------

\* The calls of OpenViewContext of a trace.
OpenViews(t) == SelectSeq(t, LAMBDA e : e.ev = "openview")

\* The payload being handled is a command that decodes.
DecodedCommand ==
    /\ cur.stream = "command"
    /\ cur.msg.Payload.decodes

\* C21: handling a command that decodes and names /new-repo makes exactly
\* one call of the modal-opening collaborator, with the trigger id of the
\* message and a modal whose repo-name input is pre-filled with the text of
\* the message (no pre-fill for an empty text); after the call the handler
\* only writes one log entry, an error when the call failed (always
\* emitted) and an info entry when it succeeded (emitted if the level lets
\* it through), pushes nothing, and returns to the wait.
C21_ModalOpenedOnce ==
    [][(/\ CommandHandled
        /\ DecodedCommand
        /\ cur.msg.Payload.command = "/new-repo")
       => (/\ Len(OpenViews(trace')) = 1
           /\ modalCalls' = modalCalls \o OpenViews(trace')
           /\ LET call == OpenViews(trace')[1] IN
              /\ call.trigger_id = cur.msg.Payload.trigger_id
              /\ call.view.callback_id = "create_github_repo_modal"
              /\ call.view.blocks[1].block_id = "repo-name"
              /\ call.view.blocks[1].has_initial <=> cur.msg.Payload.text # <<>>
              /\ call.view.blocks[1].initial_value = cur.msg.Payload.text
           /\ LET k == CHOOSE i \in 1..Len(trace') : trace'[i].ev = "openview"
                  ok == OpenViews(trace')[1].ok
              IN /\ \A i \in 1..Len(trace') : i # k => trace'[i].ev = "log"
                 /\ Len(trace') <= k + 1
                 /\ ~ok => Len(trace') = k + 1
                 /\ Len(trace') = k + 1
                       => trace'[k + 1].level = IF ok THEN 1 ELSE 3
           /\ QueuesUnchanged
           /\ pc' = "Idle")]_vars

\* A /new-repo command with the text widget has been handled, its modal
\* call failed and was logged as an error.
C21_Witness ==
    /\ pc = "Idle"
    /\ cur.stream = "command"
    /\ cur.msg.Payload.command = "/new-repo"
    /\ cur.msg.Payload.text = <<"w","i","d","g","e","t">>
    /\ Len(modalCalls) = 1
    /\ ~modalCalls[1].ok
    /\ modalCalls[1].trigger_id = "T2"
    /\ modalCalls[1].view.blocks[1].initial_value = <<"w","i","d","g","e","t">>
    /\ trace # <<>>
    /\ trace[Len(trace)].level = 3

\* The process logs warnings: its LOG_LEVEL is not error.
LogsWarnings == env.LOG_LEVEL # <<"e","r","r","o","r">>

\* C22: handling a command that decodes and names anything but /new-repo,
\* the empty name included, calls no collaborator and pushes nothing: the
\* trace holds log entries only, none above the warn severity, among them
\* the warning of the unknown command when the process logs warnings, and
\* the loop returns to the wait.
C22_UnknownCommandDiscarded ==
    [][(/\ CommandHandled
        /\ DecodedCommand
        /\ cur.msg.Payload.command # "/new-repo")
       => (/\ modalCalls' = modalCalls
           /\ QueuesUnchanged
           /\ \A i \in 1..Len(trace') :
                 trace'[i].ev = "log" /\ trace'[i].level <= 2
           /\ LogsWarnings
                 => /\ trace' # <<>>
                    /\ trace'[Len(trace')] = [ev |-> "log", level |-> 2,
                                              msg |-> "Unknown command"]
           /\ pc' = "Idle")]_vars

\* A command with an empty name has been handled by a process that logs
\* warnings: the warning is the last entry and no modal was opened.
C22_Witness ==
    /\ pc = "Idle"
    /\ cur.stream = "command"
    /\ cur.msg.Payload.decodes
    /\ cur.msg.Payload.command = ""
    /\ trace # <<>>
    /\ trace[Len(trace)].level = 2
    /\ modalCalls = <<>>

\* ------------------------------------------------------------------------
\* Properties of the handling of failures
\* ------------------------------------------------------------------------

\* C23: handling a payload that does not decode, on either stream, calls
\* no collaborator and pushes nothing: the trace holds log entries only
\* and ends with the error entry of the decoding failure, nothing is
\* flattened, the streams are left as they are, and the loop returns to
\* the wait.
C23_UndecodableDropped ==
    [][(/\ CommandHandled \/ SubmissionHandled
        /\ ~cur.msg.Payload.decodes)
       => (/\ modalCalls' = modalCalls
           /\ QueuesUnchanged
           /\ \A i \in 1..Len(trace') : trace'[i].ev = "log"
           /\ trace' # <<>>
           /\ trace'[Len(trace')].level = 3
           /\ Len(LogsAt(trace', 3)) = 1
           /\ \A i \in 1..(Len(trace') - 1) : trace'[i].level = 0
           /\ ch' = ch
           /\ viewSubmissionCh' = viewSubmissionCh
           /\ pc' = "Idle")]_vars

\* An undecodable command has been handled with a message still pending
\* on the submission stream.
C23_Witness ==
    /\ pc = "Idle"
    /\ cur.stream = "command"
    /\ ~cur.msg.Payload.decodes
    /\ trace # <<>>
    /\ trace[Len(trace)].level = 3
    /\ viewSubmissionCh # <<>>
    /\ modalCalls = <<>>
    /\ poppitList = <<>>

\* A handler has just returned from a message whose handling failed: the
\* last entry of its trace is an error or a warning.
ReturnedFromFailure ==
    /\ pc = "Idle"
    /\ cur.stream # "none"
    /\ trace # <<>>
    /\ trace[Len(trace)].ev = "log"
    /\ trace[Len(trace)].level >= 2

\* C24: once the loop runs, the process ends only by the cancellation:
\* every step that takes the loop out of a handler leads to the wait,
\* whatever the handler met, every step to Shutdown starts at the wait
\* with the context cancelled, no step leads from the running loop to
\* Fatal, and at the wait, also after a failure, the loop can take the
\* next pending message of either stream.
C24_FailuresAreLocal ==
    /\ [][/\ (Handling /\ pc' # pc) => pc' = "Idle"
          /\ (Running /\ pc' = "Shutdown") => (pc = "Idle" /\ cancelled)
          /\ Running => pc' # "Fatal"]_vars
    /\ [](pc = "Idle" =>
             /\ ch # <<>> => ENABLED LoopRecvCommand
             /\ viewSubmissionCh # <<>> => ENABLED LoopRecvSubmission)

\* The handler of a submission has returned after a failed push of the
\* task, and a command is pending at the wait.
C24_Witness ==
    /\ ReturnedFromFailure
    /\ cur.stream = "submission"
    /\ PushesTo(trace, "poppit") # <<>>
    /\ ~PushesTo(trace, "poppit")[1].ok
    /\ ch # <<>>
    /\ ~cancelled

\* The effects a process started in the environment e has when the first
\* message it handles is m of the given stream: the trace of the handler
\* and what it adds to the record of modal calls and to the two queues,
\* for every choice of the flattener and every outcome of the calls.
FreshEffects(e, stream, m) ==
    LET cfg == loadConfig(e).config
        l == NewLogger(cfg.LogLevel)
    IN IF stream = "command"
       THEN {handleMessage(l, m.Payload, openOk) : openOk \in BOOLEAN}
       ELSE UNION {{handleViewSubmission(l, cfg, m.Payload, values, poppitOk, slackOk) :
                       poppitOk \in BOOLEAN, slackOk \in BOOLEAN} :
                   values \in extractViewValues(m.Payload.values)}

\* C25: whatever was handled before, the effects of handling a message
\* are effects that the same message has when it is the first message of
\* a process with the same configuration: the trace of the step, and what
\* the step adds to the modal calls, the task queue and the notification
\* queue, are those of the handler on the message alone.
C25_NoSharedState ==
    [][(CommandHandled \/ SubmissionHandled)
       => \E r \in FreshEffects(env, cur.stream, cur.msg) :
             /\ trace' = r.trace
             /\ modalCalls' = modalCalls \o r.modal
             /\ poppitList' = poppitList \o r.poppit
             /\ slackLinerList' = slackLinerList \o r.slack]_vars

\* A second submission naming the repository of a task already on the
\* queue has been handled, and has put its own task on the queue.
C25_Witness ==
    /\ pc = "Idle"
    /\ cur.stream = "submission"
    /\ Len(poppitList) = 2
    /\ poppitList[1].repo = poppitList[2].repo
    /\ Len(slackLinerList) = 2

\* ------------------------------------------------------------------------
\* Properties of the startup
\* ------------------------------------------------------------------------

\* The events of the given kind of a trace.
EventsOf(t, kind) == SelectSeq(t, LAMBDA e : e.ev = kind)

\* The startup recorded in the trace t went through: the ping and the
\* confirmation of each of the two subscriptions succeeded.
StartupWentThrough(t) ==
    /\ \E i \in 1..Len(t) : t[i] = [ev |-> "ping", ok |-> TRUE]
    /\ \E i \in 1..Len(t) :
          t[i] = [ev |-> "receive", stream |-> "command", ok |-> TRUE]
    /\ \E i \in 1..Len(t) :
          t[i] = [ev |-> "receive", stream |-> "submission", ok |-> TRUE]

\* C26: the startup ends at the wait of the loop exactly when the token
\* and the organisation are set, the ping succeeded and both subscriptions
\* were confirmed, and otherwise in Fatal, right after the first step that
\* failed; messages are taken only by the running loop, Fatal is never
\* left, and a process in Startup or Fatal has handled nothing.
C26_StartupGate ==
    /\ [][/\ (pc = "Startup" /\ pc' # pc)
               => /\ pc' \in {"Idle", "Fatal"}
                  /\ pc' = "Idle"
                        <=> /\ env.SLACK_BOT_TOKEN # <<>>
                            /\ env.GITHUB_ORG # <<>>
                            /\ StartupWentThrough(trace')
                  /\ pc' = "Fatal"
                        => /\ trace'[Len(trace')].ev = "fatal"
                           /\ Len(EventsOf(trace', "fatal")) = 1
                           /\ \A i \in 1..(Len(trace') - 2) : trace'[i].ok
                           /\ Len(trace') >= 2 => ~trace'[Len(trace') - 1].ok
          /\ (TakesCommand \/ TakesSubmission) => pc = "Idle"
          /\ pc # "Fatal"]_vars
    /\ [](pc \in {"Startup", "Fatal"}
            => /\ cur.stream = "none"
               /\ ch = <<>>
               /\ viewSubmissionCh = <<>>
               /\ modalCalls = <<>>
               /\ poppitList = <<>>
               /\ slackLinerList = <<>>)

\* The process has ended in Fatal with the token and the organisation set
\* and the ping and the first subscription succeeded: the confirmation of
\* the subscription to the submission stream failed.
C26_Witness ==
    /\ pc = "Fatal"
    /\ env.SLACK_BOT_TOKEN # <<>>
    /\ env.GITHUB_ORG # <<>>
    /\ Len(trace) = 4
    /\ trace[3] = [ev |-> "receive", stream |-> "submission", ok |-> FALSE]

\* C27: while the handler of a message is running, the loop can take a
\* message that is pending on either stream.
C27_HandlesConcurrently ==
    Handling =>
        /\ ch # <<>> => ENABLED LoopRecvCommand
        /\ viewSubmissionCh # <<>> => ENABLED LoopRecvSubmission

\* ------------------------------------------------------------------------
\* Properties of the Logger
\* ------------------------------------------------------------------------

\* The severity of a call, with debug < info < warn < error.
Severity(call) ==
    CASE call = "Debug" -> 0
      [] call = "Info" -> 1
      [] call = "Warn" -> 2
      [] call = "Error" -> 3

\* c is the lower-case letter d or a capital letter whose lower case is d.
SameLetter(c, d) ==
    \/ c = d
    \/ \E i \in 1..Len(LowerSeq) : d = LowerSeq[i] /\ c = UpperSeq[i]
    \/ d = "i" /\ c = "U+0130"

\* s spells the lower-case word, in whatever case.
Spells(s, word) ==
    /\ Len(s) = Len(word)
    /\ \A i \in 1..Len(s) : SameLetter(s[i], word[i])

\* The level a level string stands for.
LevelOf(s) ==
    IF Spells(s, <<"d","e","b","u","g">>) THEN 0
    ELSE IF Spells(s, <<"w","a","r","n">>)
            \/ Spells(s, <<"w","a","r","n","i","n","g">>) THEN 2
    ELSE IF Spells(s, <<"e","r","r","o","r">>) THEN 3
    ELSE 1

\* C28: a call of Debug, Info, Warn or Error emits its message, as one
\* entry of the call's severity, exactly when that severity is at least
\* the level of the Logger, and emits nothing otherwise.
C28_LevelFiltering ==
    fnOp = "Log" =>
        fnRes = IF Severity(fnArg.call) >= LevelOf(fnArg.s)
                THEN <<[ev |-> "log", level |-> Severity(fnArg.call),
                        msg |-> fnArg.msg]>>
                ELSE <<>>

\* Warn has been called on a Logger created for "warn" and has emitted
\* its message.
C28_Witness ==
    /\ fnOp = "Log"
    /\ fnArg.s = <<"w","a","r","n">>
    /\ fnArg.call = "Warn"
    /\ Len(fnRes) = 1
    /\ fnRes[1].msg = fnArg.msg

\* C29: NewLogger gives the level that its string spells in whatever
\* case: debug, info, warn or warning, error; every other string, the
\* empty one included, gives info.
C29_LevelParsing ==
    fnOp = "NewLogger" => fnRes = [level |-> LevelOf(fnArg.s)]

\* NewLogger has been applied to "WaRnInG" and has given the warn level.
C29_Witness ==
    /\ fnOp = "NewLogger"
    /\ fnArg.s = <<"W","a","R","n","I","n","G">>
    /\ fnRes.level = 2

\* The three commands of a task name the repo: the create command is
\* "gh repo create <repo>" followed by its flags, the clone command is
\* "gh repo clone <repo>" and the init command is "gh vibe init <repo>".
CommandsName(commands, repo) ==
    /\ IsPrefix(ExpectCreate \o repo \o ExpectFlags, commands[1])
    /\ commands[2] = ExpectClone \o repo
    /\ commands[3] = ExpectInit \o repo

\* The part of a task's repo after "<configured owner>/".
NameOfTask(t) == SubSeq(t.repo, Len(env.GITHUB_ORG) + 2, Len(t.repo))

\* C30: whatever messages arrived and however the pushes went, every task
\* on the task queue has a repo of the form <configured owner>/<name> whose
\* name is non-empty, at most 100 characters long and made of letters,
\* digits, '-', '_' and '.' only, and has exactly three commands, each of
\* which names that same <owner>/<name>.
C30_TasksWellFormed ==
    \A i \in 1..Len(poppitList) :
        LET t == poppitList[i] IN
        /\ IsPrefix(env.GITHUB_ORG \o <<"/">>, t.repo)
        /\ env.GITHUB_ORG # <<>>
        /\ NameOK(NameOfTask(t))
        /\ Len(t.commands) = 3
        /\ CommandsName(t.commands, t.repo)

\* Two submissions were handled and each placed a task for acme/widget on
\* the queue.
C30_Witness ==
    /\ Len(poppitList) = 2
    /\ poppitList[1].repo = <<"a","c","m","e","/","w","i","d","g","e","t">>
    /\ poppitList[2].repo = poppitList[1].repo
    /\ Len(poppitList[2].commands) = 3

\* ------------------------------------------------------------------------
\* Properties of the queues, of the modal and of the wait
\* ------------------------------------------------------------------------

\* The link a notification carries for a repo: <https://github.com/R|R>.
ExpectLink(repo) == <<"<">> \o ExpectRepoURL \o repo \o <<"|">> \o repo \o <<">">>

\* The position of the first successful RPush to a list in a trace, 0 when
\* there is none.
FirstPushed(t, list) ==
    LET at == {i \in 1..Len(t) :
                 t[i].ev = "rpush" /\ t[i].list = list /\ t[i].ok}
    IN IF at = {} THEN 0 ELSE CHOOSE i \in at : \A j \in at : i <= j

\* C31: whatever messages arrived and however the pushes went, the
\* notification queue is never longer than the task queue; the notification
\* queue grows only while a submission is handled, by one notification, and
\* then the task queue grew by one task in the same handling, the push of
\* that task succeeded before the push of the notification, and the
\* notification links the owner/name of that task.
C31_NotificationsFollowTasks ==
    /\ [](Len(slackLinerList) <= Len(poppitList))
    /\ [][slackLinerList' # slackLinerList
          => LET p == FirstPushed(trace', "poppit")
                 n == FirstPushed(trace', "slackliner")
             IN /\ SubmissionHandled
                /\ Len(slackLinerList') = Len(slackLinerList) + 1
                /\ IsPrefix(slackLinerList, slackLinerList')
                /\ Len(poppitList') = Len(poppitList) + 1
                /\ 0 < p
                /\ p < n
                /\ trace'[p].payload = poppitList'[Len(poppitList')]
                /\ trace'[n].payload = slackLinerList'[Len(slackLinerList')]
                /\ Contains(trace'[n].payload.text,
                            ExpectLink(trace'[p].payload.repo))]_vars

\* Two tasks are on the task queue and one notification, for the first of
\* them, on the notification queue: the second notification was not pushed.
C31_Witness ==
    /\ Len(poppitList) = 2
    /\ Len(slackLinerList) = 1
    /\ Contains(slackLinerList[1].text, ExpectLink(poppitList[1].repo))
    /\ pc = "Idle"
    /\ FirstPushed(trace, "poppit") > 0
    /\ FirstPushed(trace, "slackliner") = 0

\* C32: handling a message of the command stream pushes nothing and leaves
\* the task queue and the notification queue as they were; handling a
\* message of the submission stream makes no call of the modal-opening
\* collaborator.
C32_HandlersKeepToTheirEffects ==
    [][/\ CommandHandled
          => (/\ QueuesUnchanged
              /\ Pushes(trace') = <<>>)
       /\ SubmissionHandled
          => (/\ modalCalls' = modalCalls
              /\ OpenViews(trace') = <<>>)]_vars

\* A command opened the modal and a submission then pushed its task and its
\* notification: the queues hold what the submission pushed and the modal
\* calls what the command made.
C32_Witness ==
    /\ pc = "Idle"
    /\ cur.stream = "submission"
    /\ Len(modalCalls) = 1
    /\ Len(poppitList) = 1
    /\ Len(slackLinerList) = 1
    /\ Len(Pushes(trace)) = 2

\* The value a flattened map holds for a group: empty when it has none.
FlatValue(m, g) == IF g \in DOMAIN m THEN m[g] ELSE <<>>

\* Two submissions and their flattened maps agree on what the handler may
\* depend on: the callback id, the repo-name and the repo-description.
AgreeOnInputs(p, q, v, w) ==
    /\ p.callback_id = q.callback_id
    /\ FlatValue(v, "repo-name") = FlatValue(w, "repo-name")
    /\ FlatValue(v, "repo-description") = FlatValue(w, "repo-description")

\* C33: two submissions that decode and agree on the callback id, on the
\* flattened repo-name and on the flattened repo-description make, under
\* the same outcomes of the pushes, the same pushes in the same order and
\* put the same task and the same notification on the queues, whatever
\* their type, their other groups, their field names and their field kinds;
\* a submission whose type is not view_submission is handled like one whose
\* type is.
C33_EffectsDependOnThreeInputs ==
    (/\ fnOp = "handleViewSubmission"
     /\ AgreeOnInputs(fnArg.p, fnArg.q, fnRes.v, fnRes.w))
    => (/\ Pushes(fnRes.first.trace) = Pushes(fnRes.second.trace)
        /\ fnRes.first.poppit = fnRes.second.poppit
        /\ fnRes.first.slack = fnRes.second.slack
        /\ fnRes.first.modal = <<>>
        /\ fnRes.second.modal = <<>>)

\* A submission of type block_actions, with the name in a field of another
\* action id or kind and with the groups ai-prompt and extra, pushed the
\* task and the notification of the plain submission it agrees with.
C33_Witness ==
    /\ fnOp = "handleViewSubmission"
    /\ AgreeOnInputs(fnArg.p, fnArg.q, fnRes.v, fnRes.w)
    /\ fnArg.q.type = "block_actions"
    /\ "extra" \in DOMAIN fnArg.q.values
    /\ fnArg.q.values["repo-name"] # fnArg.p.values["repo-name"]
    /\ Len(fnRes.second.poppit) = 1
    /\ Len(fnRes.second.slack) = 1
    /\ fnRes.second.poppit = fnRes.first.poppit

\* The block ids of a modal.
BlockIDs(view) == {view.blocks[i].block_id : i \in 1..Len(view.blocks)}

\* A modal as the submission handler needs it: the callback id the handler
\* accepts and the groups it reads.
FormFitsHandler(view) ==
    /\ view.callback_id = "create_github_repo_modal"
    /\ {"repo-name", "repo-description"} \subseteq BlockIDs(view)

\* C34: the modal built for /new-repo carries the callback id the
\* submission handler requires and has the input groups repo-name and
\* repo-description; the handler does not discard the submission of that
\* modal as an unknown callback: it goes on to flatten it, finds the
\* repo-name and the repo-description in it, and pushes the task when the
\* name is valid and the push succeeds.
C34_OwnFormAccepted ==
    /\ fnOp = "createNewRepoModal" => FormFitsHandler(fnRes)
    /\ fnOp = "submitForm"
       => (/\ FormFitsHandler(fnRes.view)
           /\ Len(Extracts(fnRes.effects.trace)) = 1
           /\ {"repo-name", "repo-description"}
                 \subseteq DOMAIN Extracts(fnRes.effects.trace)[1].values
           /\ (/\ NameOK(FlatName(fnRes.effects.trace))
               /\ PushesTo(fnRes.effects.trace, "poppit")[1].ok)
              => Len(fnRes.effects.poppit) = 1)

\* The form opened for "/new-repo widget" was submitted with the name left
\* as pre-filled and a description typed in, and its task was pushed.
C34_Witness ==
    /\ fnOp = "submitForm"
    /\ fnArg.text = <<"w","i","d","g","e","t">>
    /\ DOMAIN fnArg.typed = {"repo-description"}
    /\ FlatName(fnRes.effects.trace) = <<"w","i","d","g","e","t">>
    /\ Len(fnRes.effects.poppit) = 1

\* The step in which the loop takes an absent message from a stream.
TakesNil ==
    \/ TakesCommand /\ Head(ch).isNil
    \/ TakesSubmission /\ Head(viewSubmissionCh).isNil

\* C35: when the loop takes an absent message from either stream it calls
\* no handler, logs nothing, pushes nothing, opens no modal, leaves the
\* other stream alone and is waiting again in the next state; it does not
\* shut down.
C35_NilMessageSkipped ==
    [][TakesNil
       => (/\ pc = "Idle"
           /\ pc' = "Idle"
           /\ cur' = cur
           /\ trace' = trace
           /\ modalCalls' = modalCalls
           /\ QueuesUnchanged
           /\ Len(ch) + Len(viewSubmissionCh)
                 = Len(ch') + Len(viewSubmissionCh') + 1)]_vars

\* Two absent messages were published and taken, one after the other: the
\* loop waits, has handled nothing and nothing is pending.
C35_Witness ==
    /\ pc = "Idle"
    /\ ~cancelled
    /\ published = 2
    /\ ch = <<>>
    /\ viewSubmissionCh = <<>>
    /\ cur = NoMessage
    /\ poppitList = <<>>
    /\ modalCalls = <<>>

\* The input block of a modal with a given block id.
BlockOf(view, b) ==
    view.blocks[CHOOSE i \in 1..Len(view.blocks) : view.blocks[i].block_id = b]

\* C36: the repo-name input of the modal built for a command text carries
\* an initial value if and only if the text is not empty, and then the
\* initial value is the text as it is, blanks included; the other inputs
\* never carry one.
C36_PrefillIffText ==
    fnOp = "createNewRepoModal"
    => (/\ BlockOf(fnRes, "repo-name").has_initial <=> fnArg.text # <<>>
        /\ BlockOf(fnRes, "repo-name").initial_value = fnArg.text
        /\ \A i \in 1..Len(fnRes.blocks) :
              fnRes.blocks[i].block_id # "repo-name"
              => ~fnRes.blocks[i].has_initial)

\* The modal built for the text "my repo" has that text as the initial
\* value of its repo-name input.
C36_Witness ==
    /\ fnOp = "createNewRepoModal"
    /\ fnArg.text = <<"m","y"," ","r","e","p","o">>
    /\ BlockOf(fnRes, "repo-name").has_initial
    /\ BlockOf(fnRes, "repo-name").initial_value = fnArg.text

\* The verdict of the validator were its limit counted in characters: the
\* same tests with the number of characters in place of the number of
\* bytes.
VerdictByCharacters(s) ==
    /\ s # <<>>
    /\ Len(s) <= 100
    /\ AllRunesValid(s)

\* C37: the verdict of isValidRepoName, which counts the limit in bytes, is
\* for every string the verdict with the limit counted in characters; a
\* string whose number of bytes differs from its number of characters
\* contains a character outside [A-Za-z0-9._-] and does not pass.
C37_BytesOrCharacters ==
    fnOp = "isValidRepoName"
    => (/\ fnRes = VerdictByCharacters(fnArg.s)
        /\ ByteLen(fnArg.s) # Len(fnArg.s)
           => (/\ \E i \in 1..Len(fnArg.s) : fnArg.s[i] \notin RepoNameChars
               /\ fnRes = FALSE))

\* A string of 100 characters and 101 bytes, within the limit counted in
\* characters and beyond it counted in bytes, does not pass.
C37_Witness ==
    /\ fnOp = "isValidRepoName"
    /\ fnArg.s = [i \in 1..99 |-> "a"] \o <<"U+00E9">>
    /\ Len(fnArg.s) = 100
    /\ ByteLen(fnArg.s) = 101
    /\ fnRes = FALSE

====
